---- MODULE Spec2Model ----
(***************************************************************************)
(* Batch orchestration layer of the logo-detection service: the Progress   *)
(* Ledger (utils/batch_tracker.py), the Checkpoint Store (pending_*.json), *)
(* the Dispatcher (utils/background_tasks.py, routers/batch.py) and the    *)
(* Live Channel Manager (utils/ws_manager.py, routers/websocket.py).       *)
(*                                                                         *)
(* The program runs on one asyncio event loop: a coroutine runs without    *)
(* interruption until it awaits something that really suspends (the        *)
(* classification call, a WebSocket send or receive, a sleep).  Each       *)
(* action below is one such uninterrupted run.  The per-batch asyncio.Lock *)
(* is taken and released inside such a run (acquire, release); _batch_locks *)
(* holds the ids that own a Lock, lock_held the ids whose Lock is held.    *)
(*                                                                         *)
(* Environment: the classification call may return any of Outcomes; the    *)
(* file system is reliable (exceptions are the ones the code itself        *)
(* raises on those outcomes and on the states it reaches).                 *)
(***************************************************************************)
EXTENDS Integers, Sequences, FiniteSets, TLC

\* ---------------------------------------------------------------- bounds
MaxItems == 3
MaxTime == 3
MaxEvents == 1
CpuCount == 4
MaxCrashes == 1
MaxResumeItems == 2
MaxReqs == 2
MaxBroadcasts == 2
MaxPairItems == 1
MaxClock == 5
MaxUrls == 3
MaxTimers == 3
MaxLogins == 4

\* ------------------------------------------------------- program constants
DefaultChunkSize == 10
\* Time is counted in abstract units: a connection is stale after more than
\* PruneTimeout units, a Recovery Record expires after more than
\* RecoveryMaxAge units (90 s and 24 h in the source).
PruneTimeout == 1
RecoveryMaxAge == 2
\* auto_expire_batch(batch_id, timeout=21600): 6 hours, here in time units.
ExpiryTimeout == 2
\* ws_manager.auto_expire_batch(batch_id, timeout=1800), in time units.
WsExpiryTimeout == 2
\* LoginRateLimiter: max_attempts = 5 within window_seconds = 300; here two
\* attempts within two time units.
max_attempts == 2
window_seconds == 2
\* cleanup_old_batches(max_age_hours=24), in time units.
max_age_hours == 2

BatchOrder == <<"b1", "b2">>
SocketOrder == <<"w1", "w2">>
BatchIds == {BatchOrder[k] : k \in 1..Len(BatchOrder)}
ClientIds == {"c1"}
Ips == {"ip1", "ip2"}
Dirs == {"d1", "d2", "d3"}
Sockets == {SocketOrder[k] : k \in 1..Len(SocketOrder)}
Items == 1..MaxItems
ChunkSizes == {0, 1, 2}
Outcomes == {"Valid", "Invalid", "Timeout", "Unavailable"}

None == "none"

Min(a, b) == IF a <= b THEN a ELSE b
Max(a, b) == IF a >= b THEN a ELSE b

\* ------------------------------------------------------------------ state
VARIABLES
    batch_data,          \* _batch_data: batch id -> progress dict
    batch_locks,         \* _batch_locks: the batch ids that own a Lock
    lock_held,           \* the batch ids whose Lock is held by some task
    expiry,              \* sleeping auto_expire_batch tasks: their wake times
    pending,             \* exports/<batch>/pending_urls.json (checkpoint)
    csv_rows,            \* exports/<batch>/results.csv: rows written per item
    metadata,            \* exports/<batch>/metadata.json
    client_connections,  \* ConnectionManager.client_connections
    client_batch_map,    \* ConnectionManager.client_batch_map
    client_last_seen,    \* ConnectionManager.client_last_seen
    connection_recovery, \* ConnectionManager.connection_recovery
    active_connections,  \* ConnectionManager.active_connections
    broadcasting,        \* the ConnectionManager.broadcast coroutine
    now,                 \* wall clock (datetime.now), in whole time units
    handler,             \* websocket_endpoint coroutine of each socket
    sent,                \* messages sent on each socket, in order
    pwc,                 \* the process_with_chunks task of batch b1
    item_st,             \* first-pass state of each item of b1
    calls,               \* classification calls made per item and pass
    reqs,                \* check_logo_batch / retry_chunk requests for b1
    batches,             \* ws_manager.batches: batch id -> batch record
    timeouts,            \* ws_manager.timeouts: batch id -> its expiry task
    expire_tasks,        \* ws_manager: the sleeping auto_expire_batch tasks
    attempts,            \* LoginRateLimiter.attempts: ip -> count, first_attempt
    exports,             \* the batch directories below exports/
    cleaned,             \* what the last cleanup_old_batches call returned
    hist                 \* history: what the operations did (for the claims)

ledgerVars == <<batch_data, batch_locks, lock_held, expiry>>
storeVars == <<pending, csv_rows, metadata>>
watchVars == <<active_connections, broadcasting>>
wsVars == <<client_connections, client_batch_map, client_last_seen,
            connection_recovery, active_connections, broadcasting, now,
            handler>>
taskVars == <<pwc, item_st, calls>>
utilVars == <<batches, timeouts, expire_tasks, attempts, exports, cleaned>>
vars == <<batch_data, batch_locks, lock_held, expiry, pending, csv_rows, metadata,
          client_connections, client_batch_map, client_last_seen,
          connection_recovery, active_connections, broadcasting, now,
          handler, sent, pwc, item_st, calls, reqs, hist,
          batches, timeouts, expire_tasks, attempts, exports, cleaned>>

\* ========================================================================
\* Progress Ledger (utils/batch_tracker.py)
\* ========================================================================
\* A progress dict is "none" (no key), "empty" (the {} that the defaultdict
\* creates on a subscript of a missing key) or "rec" (a full entry).
NoBatch == [kind |-> "none"]
EmptyBatch == [kind |-> "empty"]

NewProgress(total, processed, valid, invalid) ==
    [kind |-> "rec", processed |-> processed, total |-> total,
     valid |-> valid, invalid |-> invalid, done |-> FALSE,
     complete_sent |-> FALSE, retry_phase |-> FALSE,
     retry_processed |-> 0, retry_total |-> 0]

init_batch(total) == NewProgress(total, 0, 0, 0)

\* Mutant: the re-registration restarts the counters at 0.
re_init_batch_from_zero(total, processed, valid, invalid) ==
    NewProgress(total, 0, 0, 0)

re_init_batch(total, processed, valid, invalid) ==
    NewProgress(total, processed, valid, invalid)

\* update_batch on a full entry: processed += 1, then valid or invalid += 1.
update_batch(p, is_valid) ==
    [p EXCEPT !.processed = @ + 1,
              !.valid = IF is_valid THEN @ + 1 ELSE @,
              !.invalid = IF is_valid THEN @ ELSE @ + 1]

start_retry_phase(p, retry_total) ==
    [p EXCEPT !.retry_phase = TRUE, !.retry_total = retry_total,
              !.retry_processed = 0]

\* Mutant: a retry result is counted in processed a second time.
update_retry_progress_counting(p, is_valid) ==
    [p EXCEPT !.retry_processed = @ + 1,
              !.processed = @ + 1,
              !.valid = IF is_valid THEN @ + 1 ELSE @,
              !.invalid = IF is_valid THEN @ ELSE @ + 1]

\* update_retry_progress: retry_processed += 1, then valid or invalid += 1;
\* processed is not touched.
update_retry_progress(p, is_valid) ==
    [p EXCEPT !.retry_processed = @ + 1,
              !.valid = IF is_valid THEN @ + 1 ELSE @,
              !.invalid = IF is_valid THEN @ ELSE @ + 1]

mark_done(p) == [p EXCEPT !.done = TRUE, !.complete_sent = TRUE]

\* get_progress: _batch_data.get(batch_id, {}) -- does not create a key.
get_progress(b) == IF batch_data[b].kind = "rec" THEN batch_data[b] ELSE EmptyBatch

is_complete_sent(b) ==
    IF batch_data[b].kind = "rec" THEN batch_data[b].complete_sent ELSE FALSE

\* A subscript _batch_data[b] of a missing key leaves {} behind, and the
\* following progress["processed"] raises KeyError.
Subscript(p) == IF p.kind = "none" THEN EmptyBatch ELSE p
Raises(p) == p.kind # "rec"

\* ========================================================================
\* Checkpoint Store (utils/batch_tracker.py, pending_urls.json)
\* ========================================================================
NoFile == [kind |-> "none"]

RemoveFirst(s, x) ==
    LET idx == CHOOSE i \in 1..Len(s) : s[i] = x /\ \A j \in 1..(i-1) : s[j] # x
    IN  [k \in 1..(Len(s) - 1) |-> IF k < idx THEN s[k] ELSE s[k + 1]]

InSeq(s, x) == \E i \in 1..Len(s) : s[i] = x

save_pending_urls(image_urls) ==
    [kind |-> "file", image_urls |-> image_urls, processed |-> 0,
     total |-> Len(image_urls), valid |-> 0, invalid |-> 0]

\* pending_files.json: the same record, the names under files_names.
save_pending_files(files_names) ==
    [kind |-> "files", files_names |-> files_names, processed |-> 0,
     total |-> Len(files_names), valid |-> 0, invalid |-> 0]

\* str.strip(): a URL written with surrounding blanks is the negative of the
\* number that stands for the URL itself.
strip(u) == IF u < 0 THEN 0 - u ELSE u

\* Mutant: the counters move although the URL is not in the list.
remove_processed_url_counting_absent(f, url, is_valid) ==
    IF f.kind # "file" THEN f
    ELSE LET stored_urls == [k \in 1..Len(f.image_urls) |-> strip(f.image_urls[k])]
             index == CHOOSE k \in 1..Len(stored_urls) :
                          /\ stored_urls[k] = strip(url)
                          /\ \A j \in 1..(k - 1) : stored_urls[j] # strip(url)
             counted == [f EXCEPT !.processed = @ + 1,
                                  !.valid = IF is_valid THEN @ + 1 ELSE @,
                                  !.invalid = IF is_valid THEN @ ELSE @ + 1]
         IN  IF InSeq(stored_urls, strip(url))
             THEN [counted EXCEPT !.image_urls = RemoveFirst(@, f.image_urls[index])]
             ELSE counted

\* remove_processed_url: nothing without pending_urls.json; the URL is looked
\* up among the stripped stored URLs, and the stored URL at that index is
\* removed (list.remove: its first occurrence).
remove_processed_url(f, url, is_valid) ==
    IF f.kind # "file" THEN f
    ELSE LET stored_urls == [k \in 1..Len(f.image_urls) |-> strip(f.image_urls[k])]
             index == CHOOSE k \in 1..Len(stored_urls) :
                          /\ stored_urls[k] = strip(url)
                          /\ \A j \in 1..(k - 1) : stored_urls[j] # strip(url)
         IN  IF InSeq(stored_urls, strip(url))
             THEN [f EXCEPT !.image_urls = RemoveFirst(@, f.image_urls[index]),
                            !.processed = @ + 1,
                            !.valid = IF is_valid THEN @ + 1 ELSE @,
                            !.invalid = IF is_valid THEN @ ELSE @ + 1]
             ELSE f

\* remove_processed_file: nothing without pending_files.json; the name is
\* compared as it is.
remove_processed_file(f, file_name, is_valid) ==
    IF f.kind # "files" THEN f
    ELSE IF InSeq(f.files_names, file_name)
         THEN [f EXCEPT !.files_names = RemoveFirst(@, file_name),
                        !.processed = @ + 1,
                        !.valid = IF is_valid THEN @ + 1 ELSE @,
                        !.invalid = IF is_valid THEN @ ELSE @ + 1]
         ELSE f

clear_pending_urls(f) == NoFile

\* ========================================================================
\* Live Channel Manager (utils/ws_manager.py, class ConnectionManager)
\* ========================================================================
\* A dict entry is a record with `present`; a missing key has present FALSE.
NoConn == None
NoList == [present |-> FALSE, batches |-> <<>>]
NoSeen == [present |-> FALSE, at |-> 0]
NoRecovery == [present |-> FALSE, batches |-> <<>>, disconnected_at |-> 0]

Manager ==
    [client_connections |-> client_connections,
     client_batch_map |-> client_batch_map,
     client_last_seen |-> client_last_seen,
     connection_recovery |-> connection_recovery]

SetManager(m) ==
    /\ client_connections' = m.client_connections
    /\ client_batch_map' = m.client_batch_map
    /\ client_last_seen' = m.client_last_seen
    /\ connection_recovery' = m.connection_recovery

\* connect_client: store the socket, setdefault the batch list.
connect_client(m, c, w) ==
    [m EXCEPT !.client_connections[c] = w,
              !.client_batch_map[c] =
                  IF @.present THEN @ ELSE [present |-> TRUE, batches |-> <<>>]]

\* disconnect_client: pop the socket and the batch list (nothing else).
disconnect_client(m, c) ==
    [m EXCEPT !.client_connections[c] = NoConn,
              !.client_batch_map[c] = NoList]

\* associate_batch: append, only for a client that has a batch list.
associate_batch(m, c, b) ==
    IF m.client_batch_map[c].present
    THEN [m EXCEPT !.client_batch_map[c].batches = Append(@, b)]
    ELSE m

mark_alive(m, c, t) ==
    [m EXCEPT !.client_last_seen[c] = [present |-> TRUE, at |-> t]]

\* The clients prune_stale_connections collects: it iterates client_last_seen.
StaleClients(m, t, timeout_secs) ==
    {c \in ClientIds : /\ m.client_last_seen[c].present
                       /\ t - m.client_last_seen[c].at > timeout_secs}

\* The sockets prune_stale_connections schedules ws.close() for.
PrunedSockets(m, t, timeout_secs) ==
    {m.client_connections[c] : c \in StaleClients(m, t, timeout_secs)} \ {NoConn}

\* Mutant: the heartbeat timestamp of a pruned client is left behind.
prune_stale_connections_keeping_seen(m, t, timeout_secs) ==
    LET stale == StaleClients(m, t, timeout_secs)
    IN  [client_connections |->
             [c \in ClientIds |-> IF c \in stale THEN NoConn
                                  ELSE m.client_connections[c]],
         client_batch_map |->
             [c \in ClientIds |-> IF c \in stale THEN NoList
                                  ELSE m.client_batch_map[c]],
         client_last_seen |-> m.client_last_seen,
         connection_recovery |->
             [c \in ClientIds |->
                 IF c \in stale /\ m.client_batch_map[c].present
                 THEN [present |-> TRUE,
                       batches |-> m.client_batch_map[c].batches,
                       disconnected_at |-> t]
                 ELSE m.connection_recovery[c]]]

prune_stale_connections(m, t, timeout_secs) ==
    LET stale == StaleClients(m, t, timeout_secs)
    IN  [client_connections |->
             [c \in ClientIds |-> IF c \in stale THEN NoConn
                                  ELSE m.client_connections[c]],
         client_batch_map |->
             [c \in ClientIds |-> IF c \in stale THEN NoList
                                  ELSE m.client_batch_map[c]],
         client_last_seen |->
             [c \in ClientIds |-> IF c \in stale THEN NoSeen
                                  ELSE m.client_last_seen[c]],
         connection_recovery |->
             [c \in ClientIds |->
                 IF c \in stale /\ m.client_batch_map[c].present
                 THEN [present |-> TRUE,
                       batches |-> m.client_batch_map[c].batches,
                       disconnected_at |-> t]
                 ELSE m.connection_recovery[c]]]

\* recover_connection returns the record's batch list, [] without a record ...
RecoveredBatches(m, c) ==
    IF m.connection_recovery[c].present
    THEN m.connection_recovery[c].batches
    ELSE <<>>

\* Mutant: the record is read and left in place.
recover_connection_keeping(m, c, w) ==
    LET info == m.connection_recovery[c]
    IN  IF info.present
        THEN [connect_client(m, c, w) EXCEPT
                  !.client_batch_map[c] =
                      [present |-> TRUE, batches |-> info.batches]]
        ELSE m

\* ... and pops the record; with a record it installs socket and batch list.
recover_connection(m, c, w) ==
    LET info == m.connection_recovery[c]
        popped == [m EXCEPT !.connection_recovery[c] = NoRecovery]
    IN  IF info.present
        THEN [connect_client(popped, c, w) EXCEPT
                  !.client_batch_map[c] =
                      [present |-> TRUE, batches |-> info.batches]]
        ELSE popped

\* Mutant: a record is removed as soon as it has reached the age.
cleanup_recovery_info_early(m, t, max_age) ==
    [m EXCEPT !.connection_recovery =
        [c \in ClientIds |->
            IF @[c].present /\ t - @[c].disconnected_at >= max_age
            THEN NoRecovery ELSE @[c]]]

cleanup_recovery_info(m, t, max_age) ==
    [m EXCEPT !.connection_recovery =
        [c \in ClientIds |->
            IF @[c].present /\ t - @[c].disconnected_at > max_age
            THEN NoRecovery ELSE @[c]]]

\* utils/websocket.py broadcast_json: send on the client's socket, if any.
broadcast_json(s, conns, c, data) ==
    IF conns[c] # NoConn
    THEN [s EXCEPT ![conns[c]] = Append(@, data)]
    ELSE s

\* ConnectionManager.connect and disconnect on the connection list of one
\* batch id (a missing key behaves as an empty list in disconnect and in
\* broadcast).
connect(l, websocket) == Append(l, websocket)

disconnect(l, websocket) ==
    IF InSeq(l, websocket) THEN RemoveFirst(l, websocket) ELSE l

\* The broadcast coroutine: `pos` is the index the list iterator will read
\* next (0-based), `connection` the socket whose send_text is awaited.
NoBroadcast ==
    [pc |-> "idle", batch_id |-> None, pos |-> 0, connection |-> NoConn,
     message |-> 0]

\* The for statement asks the list iterator for its next element: the
\* element at `pos` of the list as it is now, or the end of the loop.
broadcast_next(t, l) ==
    IF t.pos < Len(l)
    THEN [t EXCEPT !.pc = "send_text", !.connection = l[t.pos + 1],
                   !.pos = @ + 1]
    ELSE [t EXCEPT !.pc = "idle", !.connection = NoConn]

\* ========================================================================
\* History kept for the claims (no program state)
\* ========================================================================
NoLoss == [present |-> FALSE, batches |-> <<>>, at |-> 0, by |-> None]
NoExpect == [present |-> FALSE, batches |-> <<>>, by |-> None]

InitHist ==
    [lost |-> [c \in ClientIds |-> NoLoss],      \* batch list at last removal
     expect |-> [c \in ClientIds |-> NoExpect],  \* lost[c] at the last connect
     signal |-> [c \in ClientIds |-> 0],         \* last connect or heartbeat
     newest |-> [c \in ClientIds |-> NoConn],    \* socket of the last connect
     owner |-> [b \in BatchIds |-> None],        \* client that started b
     emitted |-> [b \in BatchIds |-> 0],         \* events broadcast for b
     missed |-> [c \in ClientIds |-> FALSE],     \* an event bypassed newest
     after_prune |-> FALSE,                      \* the last step was a prune
     counted |-> [i \in Items |-> 0],            \* update_batch calls per item
     outcome |-> [i \in Items |-> None],         \* first-pass check_logo result
     final_stats |-> NoBatch,                    \* what mark_done returned
     crashes |-> 0,                              \* process restarts so far
     resumed |-> NoFile,                         \* checkpoint read at recovery
     registered |-> 0,                           \* total given to init_batch
     last_result |-> 0,                          \* time of the last count
     broadcasts |-> 0,                           \* broadcast calls so far
     watching |-> {},                            \* watchers during the last one
     failed |-> {},                              \* whose send raised in it
     expired |-> [present |-> FALSE, idle |-> 0], \* what auto-expiry removed
     absent |-> FALSE,                           \* a removal named no listed item
     admitted |-> [ip \in Ips |-> <<>>],         \* times of the admitted logins
     logins |-> 0,                               \* login attempts so far
     plan |-> [total_files |-> 0, chunk_size |-> 1]]  \* the client's upload

\* ========================================================================
\* routers/websocket.py: websocket_endpoint, and the manager's callers
\* ========================================================================
NoHandler == [st |-> "free", client |-> None]

\* Sockets and batch ids are fresh objects: the next unused one is taken.
FreeSocket(w) ==
    \E k \in 1..Len(SocketOrder) :
        /\ SocketOrder[k] = w
        /\ handler[w].st = "free"
        /\ \A j \in 1..(k - 1) : handler[SocketOrder[j]].st # "free"

\* (`event` tags the kind of message, the welcome JSON has no such key; a
\* welcome without recovered batches has no recovered_batches key: <<>>.)
Welcome(c, recovered) ==
    [event |-> "welcome", message |-> IF recovered # <<>> THEN "reconnected" ELSE "connected",
     client_id |-> c, recovered_batches |-> recovered]

\* A client opens a socket under id c: accept, recover_connection,
\* connect_client, welcome message; the handler then waits in receive_text.
Connect(c, w) ==
    /\ FreeSocket(w)
    /\ LET recovered == RecoveredBatches(Manager, c)
           m == connect_client(recover_connection(Manager, c, w), c, w)
       IN  /\ SetManager(m)
           /\ sent' = [sent EXCEPT ![w] = <<Welcome(c, recovered)>>]
    /\ handler' = [handler EXCEPT ![w] = [st |-> "open", client |-> c]]
    /\ hist' = [hist EXCEPT
           !.expect[c] = IF hist.lost[c].present
                            /\ now - hist.lost[c].at <= RecoveryMaxAge
                         THEN [present |-> TRUE,
                               batches |-> hist.lost[c].batches,
                               by |-> hist.lost[c].by]
                         ELSE NoExpect,
           !.lost[c] = NoLoss,
           !.signal[c] = now,
           !.newest[c] = w,
           !.missed[c] = FALSE,
           !.after_prune = FALSE]
    /\ UNCHANGED <<ledgerVars, storeVars, taskVars, reqs, watchVars, now, utilVars>>

\* A heartbeat message arrives on w: mark_alive, then the acknowledgement
\* (heartbeat_ack frames are not recorded in `sent`).
Heartbeat(w) ==
    /\ handler[w].st = "open"
    /\ SetManager(mark_alive(Manager, handler[w].client, now))
    /\ hist' = [hist EXCEPT !.signal[handler[w].client] =
                                IF hist.newest[handler[w].client] = w
                                THEN now ELSE @,
                            !.after_prune = FALSE]
    /\ UNCHANGED <<ledgerVars, storeVars, taskVars, reqs, watchVars, now, utilVars, handler, sent>>

\* receive_text raises on w (the peer went away, or the server closed the
\* socket after pruning it): both except branches call disconnect_client.
Disconnect(w) ==
    /\ handler[w].st \in {"open", "closing"}
    /\ LET c == handler[w].client
       IN  /\ SetManager(disconnect_client(Manager, c))
           /\ hist' = [hist EXCEPT
                  !.lost[c] = IF client_batch_map[c].present
                              THEN [present |-> TRUE,
                                    batches |-> client_batch_map[c].batches,
                                    at |-> now, by |-> "disconnect"]
                              ELSE @,
                  !.after_prune = FALSE]
    /\ handler' = [handler EXCEPT ![w].st = "ended"]
    /\ UNCHANGED <<ledgerVars, storeVars, taskVars, reqs, watchVars, now, utilVars, sent>>

\* prune_stale_connections(timeout_secs): create_task(ws.close()) for each
\* pruned socket; its handler then only has the disconnect left to see.
Prune ==
    /\ LET m == prune_stale_connections(Manager, now, PruneTimeout)
           closed == PrunedSockets(Manager, now, PruneTimeout)
           stale == StaleClients(Manager, now, PruneTimeout)
       IN  /\ SetManager(m)
           /\ handler' = [w \in Sockets |->
                            IF w \in closed /\ handler[w].st = "open"
                            THEN [handler[w] EXCEPT !.st = "closing"]
                            ELSE handler[w]]
           /\ hist' = [hist EXCEPT
                  !.lost = [c \in ClientIds |->
                              IF c \in stale /\ client_batch_map[c].present
                              THEN [present |-> TRUE,
                                    batches |-> client_batch_map[c].batches,
                                    at |-> now, by |-> "prune"]
                              ELSE @[c]],
                  !.after_prune = TRUE]
    /\ UNCHANGED <<ledgerVars, storeVars, taskVars, reqs, watchVars, now, utilVars, sent>>

Cleanup ==
    /\ SetManager(cleanup_recovery_info(Manager, now, RecoveryMaxAge))
    /\ hist' = [hist EXCEPT !.after_prune = FALSE]
    /\ UNCHANGED <<ledgerVars, storeVars, taskVars, reqs, watchVars, now, utilVars, handler, sent>>

Tick ==
    /\ now < MaxTime
    /\ now' = now + 1
    /\ hist' = [hist EXCEPT !.after_prune = FALSE]
    /\ UNCHANGED <<ledgerVars, storeVars, taskVars, reqs, watchVars, handler, sent,
                   client_connections, client_batch_map, client_last_seen,
                   connection_recovery, utilVars>>

\* routers/batch.py start_batch with a client_id: a fresh batch id (uuid4),
\* its metadata.json, and associate_batch.
NoMeta == [kind |-> "none"]
NewMeta == [kind |-> "file", status |-> "initialized",
            valid |-> 0, invalid |-> 0, total |-> 0]

FreshBatch(b) ==
    \E k \in 1..Len(BatchOrder) :
        /\ BatchOrder[k] = b
        /\ metadata[b].kind = "none"
        /\ \A j \in 1..(k - 1) : metadata[BatchOrder[j]].kind # "none"

start_batch(c, b) ==
    /\ FreshBatch(b)
    /\ metadata' = [metadata EXCEPT ![b] = NewMeta]
    /\ SetManager(associate_batch(Manager, c, b))
    /\ hist' = [hist EXCEPT !.owner[b] = c, !.after_prune = FALSE]
    /\ UNCHANGED <<ledgerVars, pending, csv_rows, taskVars, reqs, watchVars, now, utilVars,
                   handler, sent>>

\* The dispatcher broadcasts one event of batch b to the client that owns it.
Notify(b) ==
    /\ hist.owner[b] # None
    /\ hist.emitted[b] < MaxEvents
    /\ LET c == hist.owner[b]
           w == hist.newest[c]
           s == broadcast_json(sent, client_connections, c,
                               [event |-> "progress", batch_id |-> b])
       IN  /\ sent' = s
           /\ hist' = [hist EXCEPT
                  !.emitted[b] = @ + 1,
                  !.missed[c] = IF /\ w # NoConn
                                   /\ handler[w].st = "open"
                                   /\ s[w] = sent[w]
                                THEN TRUE ELSE @,
                  !.after_prune = FALSE]
    /\ UNCHANGED <<ledgerVars, storeVars, taskVars, reqs, wsVars, utilVars>>

\* ------------------------------------------------------------------------
\* ConnectionManager.connect, disconnect and broadcast (per batch id)
\* ------------------------------------------------------------------------
\* A socket is accepted and appended to the list of batch b.
ConnectBatch(b, w) ==
    /\ ~InSeq(active_connections[b], w)
    /\ active_connections' = [active_connections EXCEPT ![b] = connect(@, w)]
    /\ UNCHANGED <<ledgerVars, storeVars, taskVars, reqs, sent, hist,
                   client_connections, client_batch_map, client_last_seen,
                   connection_recovery, broadcasting, now, utilVars, handler>>

\* A socket is removed from the list of batch b; a socket that leaves while
\* a broadcast to b runs did not watch the whole broadcast.
DisconnectBatch(b, w) ==
    /\ InSeq(active_connections[b], w)
    /\ active_connections' = [active_connections EXCEPT ![b] = disconnect(@, w)]
    /\ hist' = IF broadcasting.pc # "idle" /\ broadcasting.batch_id = b
               THEN [hist EXCEPT !.watching = @ \ {w}]
               ELSE hist
    /\ UNCHANGED <<ledgerVars, storeVars, taskVars, reqs, sent,
                   client_connections, client_batch_map, client_last_seen,
                   connection_recovery, broadcasting, now, utilVars, handler>>

\* broadcast(b, message) is called and runs to its first send_text.
Broadcast(b) ==
    /\ broadcasting.pc = "idle"
    /\ hist.broadcasts < MaxBroadcasts
    /\ broadcasting' =
           broadcast_next([NoBroadcast EXCEPT !.batch_id = b,
                                              !.message = hist.broadcasts + 1],
                          active_connections[b])
    /\ hist' = [hist EXCEPT
                  !.broadcasts = @ + 1,
                  !.watching = {active_connections[b][k] :
                                   k \in 1..Len(active_connections[b])},
                  !.failed = {}]
    /\ UNCHANGED <<ledgerVars, storeVars, taskVars, reqs, sent,
                   client_connections, client_batch_map, client_last_seen,
                   connection_recovery, active_connections, now, utilVars, handler>>

\* The awaited send_text returns (the socket got the message) or raises (the
\* except branch logs the error); the loop goes on with the next element.
SendText(ok) ==
    /\ broadcasting.pc = "send_text"
    /\ sent' = IF ok
               THEN [sent EXCEPT ![broadcasting.connection] =
                        Append(@, [event |-> "message",
                                   batch_id |-> broadcasting.batch_id,
                                   message |-> broadcasting.message])]
               ELSE sent
    /\ hist' = IF ok THEN hist
               ELSE [hist EXCEPT !.failed = @ \cup {broadcasting.connection}]
    /\ broadcasting' =
           broadcast_next(broadcasting,
                          active_connections[broadcasting.batch_id])
    /\ UNCHANGED <<ledgerVars, storeVars, taskVars, reqs,
                   client_connections, client_batch_map, client_last_seen,
                   connection_recovery, active_connections, now, utilVars, handler>>

\* Mutant: an empty batch reports no progress.
get_batch_status_ratio(m) ==
    [status |-> m.status, valid |-> m.valid, invalid |-> m.invalid,
     total |-> m.total,
     progress |-> IF m.total = 0 THEN 0
                  ELSE ((m.valid + m.invalid) * 100) \div m.total]

\* GET /api/check-logo/batch/{batch_id}/status on the metadata m of a started
\* batch: the counts and the progress in whole percent, 100 when total is 0.
get_batch_status(m) ==
    [status |-> m.status, valid |-> m.valid, invalid |-> m.invalid,
     total |-> m.total,
     progress |-> IF m.total = 0 THEN 100
                  ELSE ((m.valid + m.invalid) * 100) \div m.total]

\* ========================================================================
\* Dispatcher (utils/background_tasks.py): one batch, submitted as URLs
\* ========================================================================
Bid == BatchOrder[1]
Cid == "c1"

\* No process_with_chunks task exists.
NoTask == [pc |-> "idle", image_urls |-> <<>>, chunk_size |-> 0,
           failed_requests |-> <<>>, pos |-> 0, result |-> None]

\* What one run of dispatcher code reads and writes: the Ledger entry, the
\* checkpoint, the CSV and the metadata of the batch, the sockets' output,
\* the process_with_chunks task (with its failed_requests list); `raised`
\* tells that the code left by an exception.
Env ==
    [data |-> batch_data[Bid], lock |-> Bid \in batch_locks,
     held |-> Bid \in lock_held,
     timers |-> expiry[Bid], file |-> pending[Bid], rows |-> csv_rows[Bid],
     meta |-> metadata[Bid], sent |-> sent, task |-> pwc, hist |-> hist,
     raised |-> FALSE]

SetEnv(e) ==
    /\ batch_data' = [batch_data EXCEPT ![Bid] = e.data]
    /\ batch_locks' = IF e.lock THEN batch_locks \cup {Bid}
                      ELSE batch_locks \ {Bid}
    /\ lock_held' = IF e.held THEN lock_held \cup {Bid}
                    ELSE lock_held \ {Bid}
    /\ expiry' = [expiry EXCEPT ![Bid] = e.timers]
    /\ pending' = [pending EXCEPT ![Bid] = e.file]
    /\ csv_rows' = [csv_rows EXCEPT ![Bid] = e.rows]
    /\ metadata' = [metadata EXCEPT ![Bid] = e.meta]
    /\ sent' = e.sent
    /\ pwc' = e.task
    /\ hist' = e.hist

\* `async with _batch_locks[batch_id]:` on entry: the defaultdict makes the
\* Lock when the id has none, and the task takes it (a free asyncio.Lock is
\* taken without suspending).
acquire(e) == [e EXCEPT !.lock = TRUE, !.held = TRUE]

\* Mutant: the block is left with the lock still held.
release_never(e) == e

\* The exit of the `async with` block, by return or by exception.
release(e) == [e EXCEPT !.held = FALSE]

ProgressEvent(p, item, status) ==
    [event |-> "progress", batch_id |-> Bid, processed |-> p.processed,
     total |-> p.total, valid |-> p.valid, invalid |-> p.invalid,
     current |-> item, current_status |-> status]

RetryStartEvent(retry_total) ==
    [event |-> "retry_start", batch_id |-> Bid, retry_total |-> retry_total]

CompleteEvent(p) ==
    [event |-> "complete", batch_id |-> Bid, processed |-> p.processed,
     total |-> p.total, valid |-> p.valid, invalid |-> p.invalid]

ErrorEvent == [event |-> "error", batch_id |-> Bid]

\* await broadcast_json(client_id, data): the message is handed to the
\* client's socket, which delivers in the order of the send calls.
Send(e, data) ==
    [e EXCEPT !.sent = broadcast_json(@, client_connections, Cid, data)]

\* Mutant: the except branch also takes the URL out of the checkpoint.
url_except_removing(e, url) ==
    IF Raises(Subscript(e.data))
    THEN release([acquire(e) EXCEPT !.data = Subscript(@), !.raised = TRUE])
    ELSE release([acquire(e) EXCEPT !.data = update_batch(@, FALSE), !.hist.last_result = now,
                   !.hist.counted[url] = @ + 1,
                   !.file = remove_processed_url(@, url, FALSE),
                   !.task.result = "Invalid"])

\* The except branch of process_url_async: update_batch(batch_id, False) and
\* an "Invalid" result; on a Ledger entry without counters update_batch
\* raises KeyError and the exception leaves the coroutine.
url_except(e, url) ==
    IF Raises(Subscript(e.data))
    THEN release([acquire(e) EXCEPT !.data = Subscript(@), !.raised = TRUE])
    ELSE release([acquire(e) EXCEPT !.data = update_batch(@, FALSE), !.hist.last_result = now,
                   !.hist.counted[url] = @ + 1,
                   !.task.result = "Invalid"])

\* Mutant: a timed-out URL is taken out of the checkpoint when it is put
\* on the retry list.
process_url_async_forgetting(e, url, o, collect) ==
    CASE o = "Timeout" /\ collect ->
           [e EXCEPT !.task.failed_requests = Append(@, url),
                     !.file = remove_processed_url(@, url, FALSE),
                     !.task.result = "Timeout"]
      [] o = "Timeout" /\ ~collect -> url_except(e, url)
      [] o = "Unavailable" -> url_except(e, url)
      [] OTHER ->
           LET e1 == [e EXCEPT !.rows[url] = @ + 1]
           IN  IF Raises(Subscript(e1.data))
               THEN url_except(e1, url)
               ELSE LET p == update_batch(e1.data, o = "Valid")
                        e2 == release([acquire(e1) EXCEPT
                                  !.data = p, !.hist.last_result = now,
                                  !.hist.counted[url] = @ + 1,
                                  !.file = remove_processed_url(@, url, o = "Valid"),
                                  !.task.result = o])
                    IN  Send(e2, ProgressEvent(p, url, o))

\* process_url_async from the return of check_logo (outcome o) to its next
\* suspension or its return.  `collect` tells that a failed_requests list
\* was passed (the first pass); the retry pass passes none.
\*  Timeout:     result["Is_Timeout"] is True; failed_requests.append, which
\*               raises AttributeError when failed_requests is None.
\*  Unavailable: the result carries the key Is_Timeout (False), which is not
\*               a CSV field name: DictWriter.writerow raises ValueError.
\*  Valid, Invalid: CSV row, update_batch, remove_processed_url, progress.
process_url_async(e, url, o, collect) ==
    CASE o = "Timeout" /\ collect ->
           [e EXCEPT !.task.failed_requests = Append(@, url),
                     !.task.result = "Timeout"]
      [] o = "Timeout" /\ ~collect -> url_except(e, url)
      [] o = "Unavailable" -> url_except(e, url)
      [] OTHER ->
           LET e1 == [e EXCEPT !.rows[url] = @ + 1]
           IN  IF Raises(Subscript(e1.data))
               THEN url_except(e1, url)
               ELSE LET p == update_batch(e1.data, o = "Valid")
                        e2 == release([acquire(e1) EXCEPT
                                  !.data = p, !.hist.last_result = now,
                                  !.hist.counted[url] = @ + 1,
                                  !.file = remove_processed_url(@, url, o = "Valid"),
                                  !.task.result = o])
                    IN  Send(e2, ProgressEvent(p, url, o))

\* retry_failed_requests, the rest of one loop iteration after
\* process_url_async returned `result`: a CSV row, update_retry_progress and
\* a progress event.  On a Ledger entry without counters update_retry_progress
\* raises in the try block and again in the except block.
retry_tail(e, url, result) ==
    LET e1 == [e EXCEPT !.rows[url] = @ + 1]
    IN  IF Raises(Subscript(e1.data))
        THEN release([acquire(e1) EXCEPT !.data = Subscript(@), !.raised = TRUE,
                      !.task.pc = "failed"])
        ELSE LET p == update_retry_progress(e1.data, result = "Valid")
             IN  [Send(release([acquire(e1) EXCEPT !.data = p, !.hist.last_result = now]),
                       ProgressEvent(p, url, result))
                     EXCEPT !.task.pc = "retry_sent"]

\* Mutant: the complete event is sent without the metadata being written.
completion_check_unsaved(e) ==
    LET p == IF e.data.kind = "rec" THEN e.data ELSE EmptyBatch
    IN  IF p.kind = "rec" /\ p.processed >= p.total /\ ~p.complete_sent
        THEN Send(release([acquire(e) EXCEPT !.data = mark_done(p),
                            !.hist.final_stats = mark_done(p),
                            !.task.pc = "completing"]),
                  CompleteEvent(mark_done(p)))
        ELSE [e EXCEPT !.raised = TRUE, !.task.pc = "failed"]

\* process_with_chunks from the completion check on (lines 276-320): the
\* check reads processed and total (KeyError on an entry without counters);
\* when it fails, `email` was never assigned and `if email:` raises
\* UnboundLocalError.
completion_check(e) ==
    LET p == IF e.data.kind = "rec" THEN e.data ELSE EmptyBatch
    IN  IF p.kind # "rec"
        THEN [e EXCEPT !.raised = TRUE, !.task.pc = "failed"]
        ELSE IF /\ p.processed >= p.total
                /\ (~p.retry_phase \/ p.retry_processed >= p.retry_total)
                /\ ~p.complete_sent
             THEN LET final_stats == mark_done(p)
                      e1 == release([acquire(e) EXCEPT
                                !.data = final_stats, !.hist.final_stats = final_stats,
                                !.meta = [@ EXCEPT !.valid = final_stats.valid,
                                                   !.invalid = final_stats.invalid,
                                                   !.total = final_stats.total,
                                                   !.status = "completed"],
                                !.task.pc = "completing"])
                  IN  Send(e1, CompleteEvent(final_stats))
             ELSE [e EXCEPT !.raised = TRUE, !.task.pc = "failed"]

\* ------------------------------------------------------------------------
\* process_with_chunks and its chunk and item tasks
\* ------------------------------------------------------------------------
max_concurrent_chunks == Min(Max(2, CpuCount \div 2), 3)
max_concurrent == Min(Max(2, CpuCount - 2), 4)

\* process_with_chunks up to its gather: the chunk size defaults to 10, the
\* URL list is cut into chunks, one task per chunk is created.
process_with_chunks(image_urls, chunk_size) ==
    [pc |-> "gather", image_urls |-> image_urls,
     chunk_size |-> IF chunk_size <= 0 THEN DefaultChunkSize ELSE chunk_size,
     failed_requests |-> <<>>, pos |-> 0, result |-> None]

\* chunk_list: the k-th chunk holds the URLs at positions (k-1)*size+1..k*size.
chunk_count ==
    IF pwc.image_urls = <<>> THEN 0
    ELSE ((Len(pwc.image_urls) - 1) \div pwc.chunk_size) + 1
ChunkOf(j) == ((j - 1) \div pwc.chunk_size) + 1
Chunk(k) ==
    {pwc.image_urls[j] :
        j \in {jj \in 1..Len(pwc.image_urls) : ChunkOf(jj) = k}}
PosOf(i) == CHOOSE j \in 1..Len(pwc.image_urls) : pwc.image_urls[j] = i

ChunkWaiting(k) == \A i \in Chunk(k) : item_st[i] = "wait"
\* process_batch_background returns when its gather does: every item task
\* returned, or one of them raised.
ChunkReturned(k) ==
    \/ \E i \in Chunk(k) : item_st[i] = "raised"
    \/ \A i \in Chunk(k) : item_st[i] = "done"
ChunkRunning(k) == ~ChunkWaiting(k) /\ ~ChunkReturned(k)

\* POST /api/init-batch: the batch is registered with its total.
InitBatch(total) ==
    /\ metadata[Bid].kind = "file"
    /\ batch_data[Bid].kind = "none"
    /\ pwc.pc = "idle"
    /\ SetEnv([Env EXCEPT !.data = init_batch(total),
                           !.timers = @ \cup {now + ExpiryTimeout},
                           !.hist.last_result = now,
                           !.hist.registered = total])
    /\ UNCHANGED <<wsVars, utilVars, item_st, calls, reqs>>

\* The batch's URLs are submitted: the checkpoint is written and
\* process_with_chunks is started as a background task.
SubmitBatch(chunk_size) ==
    /\ pwc.pc = "idle"
    /\ batch_data[Bid].kind = "rec"
    /\ LET image_urls == [k \in 1..batch_data[Bid].total |-> k]
       IN  /\ SetEnv([Env EXCEPT
                  !.file = save_pending_urls(image_urls),
                  !.task = process_with_chunks(image_urls, chunk_size)])
           /\ item_st' = [i \in Items |->
                            IF i <= Len(image_urls) THEN "wait" ELSE "none"]
    /\ UNCHANGED <<wsVars, utilVars, calls, reqs>>

\* process_chunk_with_limit: the next chunk task gets the chunk semaphore;
\* process_batch_background reads the metadata and creates the item tasks.
StartChunk(k) ==
    /\ pwc.pc = "gather"
    /\ k \in 1..chunk_count
    /\ ChunkWaiting(k)
    /\ \A j \in 1..(k - 1) : ~ChunkWaiting(j)
    /\ Cardinality({j \in 1..chunk_count : ChunkRunning(j)})
           < max_concurrent_chunks
    /\ item_st' = [i \in Items |-> IF i \in Chunk(k) THEN "queued"
                                   ELSE item_st[i]]
    /\ UNCHANGED <<ledgerVars, storeVars, wsVars, utilVars, sent, pwc, calls, reqs, hist>>

\* process_with_limit: the next item task of a chunk gets the item semaphore
\* and process_url_async awaits yolo_client.check_logo.
StartItem(i) ==
    /\ pwc.pc # "idle"
    /\ item_st[i] = "queued"
    /\ LET mine == Chunk(ChunkOf(PosOf(i)))
       IN  /\ \A j \in mine : PosOf(j) < PosOf(i) => item_st[j] # "queued"
           /\ Cardinality({j \in mine : item_st[j] = "inflight"})
                  < max_concurrent
    /\ item_st' = [item_st EXCEPT ![i] = "inflight"]
    /\ calls' = [calls EXCEPT ![i] = @ + 1]
    /\ UNCHANGED <<ledgerVars, storeVars, wsVars, utilVars, sent, pwc, reqs, hist>>

\* Mutant: the except branch of process_batch_background sends nothing.
background_error_silent(e) == [e EXCEPT !.raised = FALSE]

\* The except branch of process_batch_background (lines 435-447): the
\* exception is logged and an error event goes to the batch's client.
background_error(e) == Send([e EXCEPT !.raised = FALSE], ErrorEvent)

\* check_logo returns for a first-pass item; an exception that leaves
\* process_url_async ends the chunk's gather and process_batch_background
\* broadcasts an error event.
ItemReturn(i, o) ==
    /\ pwc.pc # "idle"
    /\ item_st[i] = "inflight"
    /\ LET e == process_url_async([Env EXCEPT !.hist.outcome[i] = o],
                                  i, o, TRUE)
       IN  IF e.raised
           THEN /\ SetEnv(background_error(e))
                /\ item_st' = [item_st EXCEPT ![i] = "raised"]
           ELSE /\ SetEnv(e)
                /\ item_st' = [item_st EXCEPT ![i] = "done"]
    /\ UNCHANGED <<wsVars, utilVars, calls, reqs>>

\* The gather of process_with_chunks returns: with failed requests
\* retry_failed_requests starts (start_retry_phase, retry_start event),
\* without any the completion check follows at once.
GatherDone ==
    /\ pwc.pc = "gather"
    /\ \A k \in 1..chunk_count : ChunkReturned(k)
    /\ IF pwc.failed_requests # <<>>
       THEN LET retry_total == Len(pwc.failed_requests)
                e == release([acquire(Env) EXCEPT
                         !.data = IF @.kind = "rec"
                                  THEN start_retry_phase(@, retry_total)
                                  ELSE EmptyBatch,
                         !.task.pc = "retry_start"])
            IN  SetEnv(Send(e, RetryStartEvent(retry_total)))
       ELSE SetEnv(completion_check(Env))
    /\ UNCHANGED <<wsVars, utilVars, item_st, calls, reqs>>

\* The retry loop takes its next request and process_url_async (called
\* without failed_requests) awaits check_logo; after the last request the
\* completion check of process_with_chunks follows.
RetryNext ==
    /\ pwc.pc \in {"retry_start", "retry_sent"}
    /\ IF pwc.pos < Len(pwc.failed_requests)
       THEN /\ SetEnv([Env EXCEPT !.task.pos = @ + 1,
                                  !.task.pc = "retry_call"])
            /\ calls' = [calls EXCEPT ![pwc.failed_requests[pwc.pos + 1]] = @ + 1]
       ELSE /\ SetEnv(completion_check(Env))
            /\ UNCHANGED calls
    /\ UNCHANGED <<wsVars, utilVars, item_st, reqs>>

\* check_logo returns for the retried request.  A Valid or Invalid result
\* leaves process_url_async suspended in its progress send; on the other
\* outcomes it returns from its except branch and the loop goes on.
RetryReturn(o) ==
    /\ pwc.pc = "retry_call"
    /\ LET url == pwc.failed_requests[pwc.pos]
           e == process_url_async(Env, url, o, FALSE)
       IN  IF e.raised
           THEN SetEnv([e EXCEPT !.task.pc = "failed"])
           ELSE IF o \in {"Valid", "Invalid"}
                THEN SetEnv([e EXCEPT !.task.pc = "retry_inner"])
                ELSE SetEnv(retry_tail(e, url, e.task.result))
    /\ UNCHANGED <<wsVars, utilVars, item_st, calls, reqs>>

\* process_url_async returns to the retry loop after its progress send.
RetryResume ==
    /\ pwc.pc = "retry_inner"
    /\ SetEnv(retry_tail(Env, pwc.failed_requests[pwc.pos], pwc.result))
    /\ UNCHANGED <<wsVars, utilVars, item_st, calls, reqs>>

\* After the complete event: clear_batch, and clear_pending_urls when the
\* URL list was not empty.
Finish ==
    /\ pwc.pc = "completing"
    /\ SetEnv([Env EXCEPT
           !.data = NoBatch, !.lock = FALSE,
           !.file = IF pwc.image_urls # <<>> THEN clear_pending_urls(@) ELSE @,
           !.task.pc = "done"])
    /\ UNCHANGED <<wsVars, utilVars, item_st, calls, reqs>>

\* ------------------------------------------------------------------------
\* Crash and recovery
\* ------------------------------------------------------------------------
\* The process dies while the batch has a checkpoint: everything in memory
\* (Ledger, manager, tasks, sockets and what was sent on them) is gone, the
\* files stay; the per-item counts start again with the new process.
Crash ==
    /\ pending[Bid].kind = "file"
    /\ pwc.pc # "crashed"
    /\ hist.crashes < MaxCrashes
    /\ batch_data' = [b \in BatchIds |-> NoBatch]
    /\ batch_locks' = {}
    /\ lock_held' = {}
    /\ expiry' = [b \in BatchIds |-> {}]
    /\ client_connections' = [c \in ClientIds |-> NoConn]
    /\ client_batch_map' = [c \in ClientIds |-> NoList]
    /\ client_last_seen' = [c \in ClientIds |-> NoSeen]
    /\ connection_recovery' = [c \in ClientIds |-> NoRecovery]
    /\ active_connections' = [b \in BatchIds |-> <<>>]
    /\ broadcasting' = NoBroadcast
    /\ handler' = [w \in Sockets |->
                     IF handler[w].st \in {"open", "closing"}
                     THEN [handler[w] EXCEPT !.st = "ended"] ELSE handler[w]]
    /\ pwc' = [NoTask EXCEPT !.pc = "crashed"]
    /\ item_st' = [i \in Items |-> "none"]
    /\ sent' = [w \in Sockets |-> <<>>]
    /\ calls' = [i \in Items |-> 0]
    /\ hist' = [hist EXCEPT !.crashes = @ + 1,
                            !.counted = [i \in Items |-> 0],
                            !.outcome = [i \in Items |-> None],
                            !.final_stats = NoBatch]
    /\ UNCHANGED <<storeVars, now, utilVars, reqs>>

\* Startup recovery: the checkpoint is read, the Ledger is re-registered with
\* its counters (re_init_batch) and the remaining URLs are handed to
\* process_with_chunks.
Recover(chunk_size) ==
    /\ pwc.pc = "crashed"
    /\ pending[Bid].kind = "file"
    /\ LET f == pending[Bid]
       IN  /\ SetEnv([Env EXCEPT
                  !.data = re_init_batch(f.total, f.processed, f.valid, f.invalid),
                  !.task = process_with_chunks(f.image_urls, chunk_size),
                  !.hist.last_result = now,
                  !.hist.resumed = f])
           /\ item_st' = [i \in Items |->
                            IF InSeq(f.image_urls, i) THEN "wait" ELSE "none"]
    /\ UNCHANGED <<wsVars, utilVars, calls, reqs>>

\* ------------------------------------------------------------------------
\* Auto-expiry (utils/batch_tracker.py)
\* ------------------------------------------------------------------------
\* auto_expire_batch after its sleep: an entry that is present and not done
\* (a {} has no "done" key) is cleared; clear_batch pops counters and lock.
auto_expire_batch(e) ==
    IF e.data.kind # "none" /\ ~(e.data.kind = "rec" /\ e.data.done)
    THEN [e EXCEPT !.data = NoBatch, !.lock = FALSE,
                   !.hist.expired = [present |-> TRUE,
                                     idle |-> now - e.hist.last_result]]
    ELSE e

\* A task created by init_batch wakes up: its sleep of ExpiryTimeout, counted
\* from the init_batch call, is over.
Expire ==
    /\ \E d \in expiry[Bid] :
          /\ d <= now
          /\ SetEnv(auto_expire_batch([Env EXCEPT !.timers = @ \ {d}]))
    /\ UNCHANGED <<wsVars, utilVars, item_st, calls, reqs>>

\* ========================================================================
\* routers/batch.py: check_logo_batch and retry_chunk (file uploads)
\* ========================================================================
\* The detection in this handler is a synchronous call: a request runs
\* without interruption from one WebSocket send to the next.  "Invalid"
\* stands for an Invalid detection and for the handler's per-file except
\* branch alike (CSV row, update_batch(False), progress event).
HttpOutcomes == {"Valid", "Invalid"}

\* The client cuts its total_files files into chunks of chunk_size and posts
\* chunk k (0-based) with chunk_index = k.
total_chunks == ((hist.plan.total_files - 1) \div hist.plan.chunk_size) + 1
FilesOf(k) ==
    LET lo == k * hist.plan.chunk_size + 1
        hi == Min((k + 1) * hist.plan.chunk_size, hist.plan.total_files)
    IN  [j \in 1..(hi - lo + 1) |-> lo + j - 1]

NewRequest(kind, k) ==
    [pc |-> "start", kind |-> kind, chunk_index |-> k,
     total_chunks |-> total_chunks, total_files |-> hist.plan.total_files,
     files |-> FilesOf(k), pos |-> 0, valid_count |-> 0, invalid_count |-> 0,
     metadata |-> metadata[Bid]]

HttpEnv(r) ==
    [data |-> batch_data[Bid], lock |-> Bid \in batch_locks,
     held |-> Bid \in lock_held,
     timers |-> expiry[Bid], rows |-> csv_rows[Bid], meta |-> metadata[Bid],
     sent |-> sent, req |-> r, hist |-> hist]

SetHttp(e, k) ==
    /\ batch_data' = [batch_data EXCEPT ![Bid] = e.data]
    /\ batch_locks' = IF e.lock THEN batch_locks \cup {Bid}
                      ELSE batch_locks \ {Bid}
    /\ lock_held' = IF e.held THEN lock_held \cup {Bid}
                    ELSE lock_held \ {Bid}
    /\ expiry' = [expiry EXCEPT ![Bid] = e.timers]
    /\ csv_rows' = [csv_rows EXCEPT ![Bid] = e.rows]
    /\ metadata' = [metadata EXCEPT ![Bid] = e.meta]
    /\ sent' = e.sent
    /\ reqs' = IF k > Len(reqs) THEN Append(reqs, e.req)
               ELSE [reqs EXCEPT ![k] = e.req]
    /\ hist' = e.hist

\* One iteration of the file loop for the next file with detection result o:
\* CSV row, update_batch, progress event.  When update_batch raises KeyError
\* the except branch writes an error row and calls update_batch again, which
\* raises again: the request ends with status 500.
process_file(e, o) ==
    LET file == e.req.files[e.req.pos + 1]
        e1 == [e EXCEPT !.rows[file] = @ + 1, !.req.pos = @ + 1]
    IN  IF Raises(Subscript(e1.data))
        THEN release([acquire(e1) EXCEPT !.rows[file] = @ + 1, !.data = Subscript(@),
                        !.req.pc = "failed"])
        ELSE LET p == update_batch(e1.data, o = "Valid")
                 e2 == release([acquire(e1) EXCEPT
                           !.data = p, !.hist.last_result = now,
                           !.hist.counted[file] = @ + 1,
                           !.req.valid_count = IF o = "Valid" THEN @ + 1 ELSE @,
                           !.req.invalid_count = IF o = "Valid" THEN @ ELSE @ + 1,
                           !.req.pc = "sent"])
             IN  Send(e2, ProgressEvent(p, file, o))

\* Mutant: the last chunk sends complete whatever the counters say.
finish_chunk_last_chunk(e) ==
    LET m == [e.req.metadata EXCEPT
                 !.valid = @ + e.req.valid_count,
                 !.invalid = @ + e.req.invalid_count,
                 !.total = @ + Len(e.req.files),
                 !.status = "completed"]
        e1 == [e EXCEPT !.meta = m, !.req.metadata = m]
        p == e1.data
    IN  IF p.kind # "rec"
        THEN [e1 EXCEPT !.req.pc = "failed"]
        ELSE IF e.req.chunk_index = e.req.total_chunks - 1
             THEN LET final_stats == mark_done(p)
                  IN  Send(release([acquire(e1) EXCEPT !.data = final_stats,
                                        !.hist.final_stats = final_stats,
                                      !.req.pc = "completing"]),
                           CompleteEvent(final_stats))
             ELSE [e1 EXCEPT !.req.pc = "done"]

\* After the loop (lines 577-610): the request's copy of the metadata, read
\* when the request began, is updated and written back; then the completion
\* check, mark_done and the complete event.
finish_chunk(e) ==
    LET m == [e.req.metadata EXCEPT
                 !.valid = @ + e.req.valid_count,
                 !.invalid = @ + e.req.invalid_count,
                 !.total = @ + Len(e.req.files),
                 !.status = "completed"]
        e1 == [e EXCEPT !.meta = m, !.req.metadata = m]
        p == e1.data
    IN  IF p.kind # "rec"
        THEN [e1 EXCEPT !.req.pc = "failed"]
        ELSE IF /\ p.processed = p.total
                /\ e.req.chunk_index = e.req.total_chunks - 1
             THEN LET final_stats == mark_done(p)
                  IN  Send(release([acquire(e1) EXCEPT !.data = final_stats,
                                        !.hist.final_stats = final_stats,
                                      !.req.pc = "completing"]),
                           CompleteEvent(final_stats))
             ELSE [e1 EXCEPT !.req.pc = "done"]

\* check_logo_batch from the arrival of the request to its first send:
\* init_batch when chunk_index is 0, then the first file.
begin_chunk(e, o) ==
    LET e1 == IF e.req.chunk_index = 0
              THEN [e EXCEPT !.data = init_batch(e.req.total_files),
                             !.timers = @ \cup {now + ExpiryTimeout},
                             !.hist.last_result = now]
              ELSE e
    IN  process_file(e1, o)

\* POST /api/check-logo/batch/ with chunk k, which was not posted before.
PostChunk(k, o) ==
    /\ Len(reqs) < MaxReqs
    /\ k \in 0..(total_chunks - 1)
    /\ \A j \in 1..Len(reqs) : reqs[j].chunk_index # k
    /\ SetHttp(begin_chunk(HttpEnv(NewRequest("batch", k)), o), Len(reqs) + 1)
    /\ UNCHANGED <<pending, wsVars, utilVars, taskVars>>

\* POST /api/check-logo/batch/{batch_id}/retry-chunk for a chunk the client
\* posted before: retry_chunk calls check_logo_batch with the same arguments.
RetryChunk(k, o) ==
    /\ Len(reqs) < MaxReqs
    /\ \E j \in 1..Len(reqs) : reqs[j].chunk_index = k
    /\ SetHttp(begin_chunk(HttpEnv(NewRequest("retry", k)), o), Len(reqs) + 1)
    /\ UNCHANGED <<pending, wsVars, utilVars, taskVars>>

\* A request resumes after its progress send: the next file, or the end of
\* the loop.
NextFile(k, o) ==
    /\ k \in 1..Len(reqs)
    /\ reqs[k].pc = "sent"
    /\ reqs[k].pos < Len(reqs[k].files)
    /\ SetHttp(process_file(HttpEnv(reqs[k]), o), k)
    /\ UNCHANGED <<pending, wsVars, utilVars, taskVars>>

EndOfChunk(k) ==
    /\ k \in 1..Len(reqs)
    /\ reqs[k].pc = "sent"
    /\ reqs[k].pos = Len(reqs[k].files)
    /\ SetHttp(finish_chunk(HttpEnv(reqs[k])), k)
    /\ UNCHANGED <<pending, wsVars, utilVars, taskVars>>

\* A request resumes after its complete send: clear_batch and the response.
Respond(k) ==
    /\ k \in 1..Len(reqs)
    /\ reqs[k].pc = "completing"
    /\ SetHttp([HttpEnv(reqs[k]) EXCEPT !.data = NoBatch, !.lock = FALSE,
                                        !.req.pc = "done"], k)
    /\ UNCHANGED <<pending, wsVars, utilVars, taskVars>>

\* The body of the 200 response of a request that has returned: the counts
\* of the files it processed (the model has no status field, as the source).
BatchProcessingResponse(r) ==
    [batch_id |-> Bid, total_processed |-> r.pos,
     valid_count |-> r.valid_count, invalid_count |-> r.invalid_count]

\* ========================================================================
\* utils/ws_manager.py: the module-level batch store and its expiry timers
\* ========================================================================
NoWsBatch == [present |-> FALSE, client_id |-> None, total |-> 0]

\* clear_batch: pop the batch, cancel and delete its recorded timer (in
\* timeouts a batch id without an entry has 0, a task its positive id).
ws_clear_batch(s, batch_id) ==
    [batches |-> [s.batches EXCEPT ![batch_id] = NoWsBatch],
     timeouts |-> [s.timeouts EXCEPT ![batch_id] = 0],
     tasks |-> {u \in s.tasks : u.id # s.timeouts[batch_id]}]

\* init_batch(client_id, batch_id, total): the batch record is stored and a
\* new auto_expire_batch task is created and recorded in timeouts.
WsInitBatch(client_id, batch_id, total) ==
    /\ Cardinality(expire_tasks) < MaxTimers
    /\ LET id == CHOOSE k \in 1..MaxTimers :
                     /\ \A u \in expire_tasks : u.id # k
                     /\ \A j \in 1..(k - 1) : \E u \in expire_tasks : u.id = j
       IN  /\ batches' = [batches EXCEPT ![batch_id] =
                             [present |-> TRUE, client_id |-> client_id, total |-> total]]
           /\ timeouts' = [timeouts EXCEPT ![batch_id] = id]
           /\ expire_tasks' = expire_tasks \cup
                   {[id |-> id, batch_id |-> batch_id, wake |-> now + WsExpiryTimeout]}
    /\ UNCHANGED <<ledgerVars, storeVars, wsVars, sent, taskVars, reqs, hist,
                   attempts, exports, cleaned>>

WsClearBatch(batch_id) ==
    /\ LET s == ws_clear_batch([batches |-> batches, timeouts |-> timeouts,
                                tasks |-> expire_tasks], batch_id)
       IN  /\ batches' = s.batches
           /\ timeouts' = s.timeouts
           /\ expire_tasks' = s.tasks
    /\ UNCHANGED <<ledgerVars, storeVars, wsVars, sent, taskVars, reqs, hist,
                   attempts, exports, cleaned>>

\* An auto_expire_batch task wakes up after its sleep (the tasks sleep the
\* same time, so an earlier one wakes first): a batch that is present is
\* cleared with clear_batch, and the task ends.
WsExpire ==
    /\ \E t \in expire_tasks :
          /\ t.wake <= now
          /\ \A u \in expire_tasks : u.wake >= t.wake
          /\ LET woken == [batches |-> batches, timeouts |-> timeouts,
                           tasks |-> expire_tasks \ {t}]
                 s == IF batches[t.batch_id].present
                      THEN ws_clear_batch(woken, t.batch_id)
                      ELSE woken
             IN  /\ batches' = s.batches
                 /\ timeouts' = s.timeouts
                 /\ expire_tasks' = s.tasks
    /\ UNCHANGED <<ledgerVars, storeVars, wsVars, sent, taskVars, reqs, hist,
                   attempts, exports, cleaned>>

\* ========================================================================
\* utils/security.py: LoginRateLimiter
\* ========================================================================
NoAttempts == [present |-> FALSE, count |-> 0, first_attempt |-> 0]

\* is_rate_limited(ip) at time t: _cleanup deletes every entry whose first
\* attempt is more than window_seconds ago; a new ip starts a count of 1;
\* otherwise the count goes up and the answer is count > max_attempts.
is_rate_limited(a, ip, t) ==
    LET kept == [i \in Ips |->
                    IF a[i].present /\ t - a[i].first_attempt > window_seconds
                    THEN NoAttempts ELSE a[i]]
    IN  IF ~kept[ip].present
        THEN [attempts |-> [kept EXCEPT ![ip] = [present |-> TRUE, count |-> 1,
                                                first_attempt |-> t]],
              limited |-> FALSE]
        ELSE [attempts |-> [kept EXCEPT ![ip].count = @ + 1],
              limited |-> kept[ip].count + 1 > max_attempts]

\* admin login: a request from ip; 429 when is_rate_limited says so.
Login(ip) ==
    /\ hist.logins < MaxLogins
    /\ LET r == is_rate_limited(attempts, ip, now)
       IN  /\ attempts' = r.attempts
           /\ hist' = [hist EXCEPT
                  !.logins = @ + 1,
                  !.admitted[ip] = IF r.limited THEN @ ELSE Append(@, now)]
    /\ UNCHANGED <<ledgerVars, storeVars, wsVars, sent, taskVars, reqs,
                   batches, timeouts, expire_tasks, exports, cleaned>>

\* ========================================================================
\* utils/cleanup.py: cleanup_old_batches
\* ========================================================================
\* A batch directory: its creation time, the checkpoint files in it, and
\* whether shutil.rmtree raises on it (a file in it cannot be deleted).
NoDir == [present |-> FALSE, ctime |-> 0, pending_files |-> FALSE,
          pending_urls |-> FALSE, locked |-> FALSE]

\* Mutant: a directory whose rmtree raised is counted as well.
cleanup_old_batches_counting_failed(x, t, max_age) ==
    LET tried == {d \in Dirs : /\ x[d].present
                               /\ ~(x[d].pending_files \/ x[d].pending_urls)
                               /\ t - x[d].ctime > max_age}
        removed == {d \in tried : ~x[d].locked}
    IN  [dirs |-> [d \in Dirs |-> IF d \in removed THEN NoDir ELSE x[d]],
         cleaned_count |-> Cardinality(tried)]

\* cleanup_old_batches(max_age_hours) at time t: every directory is looked
\* at; one with a checkpoint file is skipped; rmtree is tried on the others
\* that are older than max_age, and one that raises is logged, not counted,
\* and the scan goes on.
cleanup_old_batches(x, t, max_age) ==
    LET tried == {d \in Dirs : /\ x[d].present
                               /\ ~(x[d].pending_files \/ x[d].pending_urls)
                               /\ t - x[d].ctime > max_age}
        removed == {d \in tried : ~x[d].locked}
    IN  [dirs |-> [d \in Dirs |-> IF d \in removed THEN NoDir ELSE x[d]],
         cleaned_count |-> Cardinality(removed)]

\* A batch directory is created, with or without a checkpoint file.
MakeBatchDir(d, pending_files, pending_urls, locked) ==
    /\ ~exports[d].present
    /\ exports' = [exports EXCEPT ![d] =
                      [present |-> TRUE, ctime |-> now, pending_files |-> pending_files,
                       pending_urls |-> pending_urls, locked |-> locked]]
    /\ UNCHANGED <<ledgerVars, storeVars, wsVars, sent, taskVars, reqs, hist,
                   batches, timeouts, expire_tasks, attempts, cleaned>>

\* The batch of a directory ends: its checkpoint file is deleted.
ClearPending(d) ==
    /\ exports[d].present
    /\ exports[d].pending_files \/ exports[d].pending_urls
    /\ exports' = [exports EXCEPT ![d].pending_files = FALSE,
                                  ![d].pending_urls = FALSE]
    /\ UNCHANGED <<ledgerVars, storeVars, wsVars, sent, taskVars, reqs, hist,
                   batches, timeouts, expire_tasks, attempts, cleaned>>

CleanupOldBatches ==
    /\ LET r == cleanup_old_batches(exports, now, max_age_hours)
       IN  /\ exports' = r.dirs
           /\ cleaned' = r.cleaned_count
    /\ UNCHANGED <<ledgerVars, storeVars, wsVars, sent, taskVars, reqs, hist,
                   batches, timeouts, expire_tasks, attempts>>

InitUtilities ==
    /\ batches = [b \in BatchIds |-> NoWsBatch]
    /\ timeouts = [b \in BatchIds |-> 0]
    /\ expire_tasks = {}
    /\ attempts = [ip \in Ips |-> NoAttempts]
    /\ exports = [d \in Dirs |-> NoDir]
    /\ cleaned = 0

InitStores ==
    /\ batch_data = [b \in BatchIds |-> NoBatch]
    /\ batch_locks = {}
    /\ lock_held = {}
    /\ expiry = [b \in BatchIds |-> {}]
    /\ pending = [b \in BatchIds |-> NoFile]
    /\ csv_rows = [b \in BatchIds |-> [i \in Items |-> 0]]
    /\ metadata = [b \in BatchIds |-> NoMeta]

InitManager ==
    /\ client_connections = [c \in ClientIds |-> NoConn]
    /\ client_batch_map = [c \in ClientIds |-> NoList]
    /\ client_last_seen = [c \in ClientIds |-> NoSeen]
    /\ connection_recovery = [c \in ClientIds |-> NoRecovery]
    /\ active_connections = [b \in BatchIds |-> <<>>]
    /\ broadcasting = NoBroadcast
    /\ now = 0
    /\ handler = [w \in Sockets |-> NoHandler]
    /\ sent = [w \in Sockets |-> <<>>]

InitTasks ==
    /\ pwc = NoTask
    /\ item_st = [i \in Items |-> "none"]
    /\ calls = [i \in Items |-> 0]
    /\ reqs = <<>>

InitWS ==
    InitStores /\ InitManager /\ InitTasks /\ InitUtilities /\ hist = InitHist

NextWS ==
    \/ \E c \in ClientIds, w \in Sockets : Connect(c, w)
    \/ \E w \in Sockets : Heartbeat(w)
    \/ \E w \in Sockets : Disconnect(w)
    \/ Prune
    \/ Cleanup
    \/ Tick
    \/ \E c \in ClientIds, b \in BatchIds : start_batch(c, b)
    \/ \E b \in BatchIds : Notify(b)

SpecWS == InitWS /\ [][NextWS]_vars

\* The checkpoint functions on their own: a checkpoint of batch b1 is saved
\* for any list of at most MaxUrls names (a name may occur twice, a URL may be
\* stored with surrounding blanks), then any name is reported as processed,
\* in any order and any number of times.
UrlNames == {1, 2, 0 - 1}

InitCheckpoint ==
    /\ batch_data = [b \in BatchIds |-> NoBatch]
    /\ batch_locks = {}
    /\ lock_held = {}
    /\ expiry = [b \in BatchIds |-> {}]
    /\ \E names \in UNION {[1..n -> UrlNames] : n \in 0..MaxUrls} :
           \/ pending = [b \in BatchIds |->
                            IF b = Bid THEN save_pending_urls(names) ELSE NoFile]
           \/ pending = [b \in BatchIds |->
                            IF b = Bid THEN save_pending_files(names) ELSE NoFile]
    /\ csv_rows = [b \in BatchIds |-> [i \in Items |-> 0]]
    /\ metadata = [b \in BatchIds |-> NoMeta]
    /\ InitManager /\ InitTasks /\ InitUtilities /\ hist = InitHist

RemoveUrl(url, is_valid) ==
    /\ pending' = [pending EXCEPT ![Bid] = remove_processed_url(@, url, is_valid)]
    /\ hist' = [hist EXCEPT !.absent =
                    @ \/ (/\ pending[Bid].kind = "file"
                          /\ ~InSeq(pending[Bid].image_urls, url)
                          /\ ~InSeq(pending[Bid].image_urls, 0 - url))]
    /\ UNCHANGED <<ledgerVars, csv_rows, metadata, wsVars, utilVars, sent, taskVars, reqs>>

RemoveFile(file_name, is_valid) ==
    /\ pending' = [pending EXCEPT ![Bid] = remove_processed_file(@, file_name, is_valid)]
    /\ hist' = [hist EXCEPT !.absent =
                    @ \/ (/\ pending[Bid].kind = "files"
                          /\ ~InSeq(pending[Bid].files_names, file_name))]
    /\ UNCHANGED <<ledgerVars, csv_rows, metadata, wsVars, utilVars, sent, taskVars, reqs>>

NextCheckpoint ==
    \/ \E url \in UrlNames, is_valid \in BOOLEAN : RemoveUrl(url, is_valid)
    \/ \E file_name \in UrlNames, is_valid \in BOOLEAN : RemoveFile(file_name, is_valid)

SpecCheckpoint == InitCheckpoint /\ [][NextCheckpoint]_vars

\* The clock of the manager over a span longer than the age of a Recovery
\* Record.
LongTick ==
    /\ now < MaxClock
    /\ now' = now + 1
    /\ hist' = [hist EXCEPT !.after_prune = FALSE]
    /\ UNCHANGED <<ledgerVars, storeVars, taskVars, reqs, watchVars, handler, sent,
                   client_connections, client_batch_map, client_last_seen,
                   connection_recovery, utilVars>>

\* The manager with its pruning and cleanup loops over that span; no events
\* are broadcast.
NextCleanup ==
    \/ \E c \in ClientIds, w \in Sockets : Connect(c, w)
    \/ \E w \in Sockets : Heartbeat(w)
    \/ \E w \in Sockets : Disconnect(w)
    \/ Prune
    \/ Cleanup
    \/ LongTick
    \/ \E c \in ClientIds, b \in BatchIds : start_batch(c, b)

SpecCleanup == InitWS /\ [][NextCleanup]_vars

\* The batch store of ws_manager: any sequence of init_batch, clear_batch and
\* timer firings, the clock running.
NextWsBatches ==
    \/ \E c \in ClientIds, b \in BatchIds : WsInitBatch(c, b, 1)
    \/ \E b \in BatchIds : WsClearBatch(b)
    \/ WsExpire
    \/ LongTick

SpecWsBatches == InitWS /\ [][NextWsBatches]_vars

\* Login attempts from two addresses, the clock running.
NextLogin ==
    \/ \E ip \in Ips : Login(ip)
    \/ LongTick

SpecLogin == InitWS /\ [][NextLogin]_vars

\* The exports directory: batch directories appear, batches end, the
\* scheduled cleanup runs at any time.
NextExports ==
    \/ \E d \in Dirs, pf, pu, locked \in BOOLEAN : MakeBatchDir(d, pf, pu, locked)
    \/ \E d \in Dirs : ClearPending(d)
    \/ CleanupOldBatches
    \/ LongTick

SpecExports == InitWS /\ [][NextExports]_vars

\* Sockets watch batch b1, come and go, and messages are broadcast to it.
NextBroadcast ==
    \/ \E w \in Sockets : ConnectBatch(Bid, w)
    \/ \E w \in Sockets : DisconnectBatch(Bid, w)
    \/ Broadcast(Bid)
    \/ \E ok \in BOOLEAN : SendText(ok)

SpecBroadcast == InitWS /\ [][NextBroadcast]_vars

\* ------------------------------------------------------------------------
\* A second batch in flight beside batch Bid
\* ------------------------------------------------------------------------
Other == BatchOrder[2]

\* Batch Other is registered with one URL (init_batch with its expiry task)
\* and its checkpoint is written.
OtherSubmit ==
    /\ batch_data[Other].kind = "none"
    /\ pending[Other].kind = "none"
    /\ expiry[Other] = {}
    /\ batch_data' = [batch_data EXCEPT ![Other] = init_batch(1)]
    /\ expiry' = [expiry EXCEPT ![Other] = @ \cup {now + ExpiryTimeout}]
    /\ pending' = [pending EXCEPT ![Other] = save_pending_urls(<<1>>)]
    /\ UNCHANGED <<batch_locks, lock_held, csv_rows, metadata, wsVars, utilVars, sent, taskVars,
                   reqs, hist>>

\* The URL of batch Other is classified: CSV row, update_batch and
\* remove_processed_url of process_url_async.
OtherItem(is_valid) ==
    /\ batch_data[Other].kind = "rec"
    /\ batch_data[Other].processed < batch_data[Other].total
    /\ csv_rows' = [csv_rows EXCEPT ![Other][1] = @ + 1]
    /\ batch_data' = [batch_data EXCEPT ![Other] = update_batch(@, is_valid)]
    /\ batch_locks' = batch_locks \cup {Other}
    /\ lock_held' = lock_held \ {Other}
    /\ pending' = [pending EXCEPT
                      ![Other] = remove_processed_url(@, 1, is_valid)]
    /\ UNCHANGED <<expiry, metadata, wsVars, utilVars, sent, taskVars, reqs, hist>>

\* Mutant: clear_batch empties both dictionaries.
clear_batch_all(l, b) ==
    [data |-> [x \in BatchIds |-> NoBatch], locks |-> {}]

\* clear_batch: the entry and the Lock of the batch are popped.
clear_batch(l, b) ==
    [data |-> [l.data EXCEPT ![b] = NoBatch], locks |-> l.locks \ {b}]

\* The expiry task of batch Other wakes up.
OtherExpire ==
    /\ \E d \in expiry[Other] :
          /\ d <= now
          /\ expiry' = [expiry EXCEPT ![Other] = @ \ {d}]
          /\ IF batch_data[Other].kind # "none"
                /\ ~(batch_data[Other].kind = "rec" /\ batch_data[Other].done)
             THEN LET l == clear_batch([data |-> batch_data,
                                        locks |-> batch_locks], Other)
                  IN  /\ batch_data' = l.data
                      /\ batch_locks' = l.locks
             ELSE UNCHANGED <<batch_data, batch_locks>>
    /\ UNCHANGED <<lock_held, storeVars, wsVars, utilVars, sent, taskVars, reqs, hist>>

\* The dispatcher starts with client c1 connected on socket w1 and batch b1
\* started by it (Connect, then start_batch).
InitStarted ==
    /\ batch_data = [b \in BatchIds |-> NoBatch]
    /\ batch_locks = {}
    /\ lock_held = {}
    /\ expiry = [b \in BatchIds |-> {}]
    /\ pending = [b \in BatchIds |-> NoFile]
    /\ csv_rows = [b \in BatchIds |-> [i \in Items |-> 0]]
    /\ metadata = [b \in BatchIds |-> IF b = Bid THEN NewMeta ELSE NoMeta]
    /\ client_connections = [c \in ClientIds |-> SocketOrder[1]]
    /\ client_batch_map = [c \in ClientIds |->
                              [present |-> TRUE, batches |-> <<Bid>>]]
    /\ client_last_seen = [c \in ClientIds |-> NoSeen]
    /\ connection_recovery = [c \in ClientIds |-> NoRecovery]
    /\ active_connections = [b \in BatchIds |-> <<>>]
    /\ broadcasting = NoBroadcast
    /\ now = 0
    /\ handler = [w \in Sockets |-> IF w = SocketOrder[1]
                                    THEN [st |-> "open", client |-> Cid]
                                    ELSE NoHandler]
    /\ sent = [w \in Sockets |-> IF w = SocketOrder[1]
                                 THEN <<Welcome(Cid, <<>>)>> ELSE <<>>]
    /\ InitTasks
    /\ InitUtilities

StartedHist == [InitHist EXCEPT !.owner[Bid] = Cid,
                                !.newest[Cid] = SocketOrder[1]]

InitDispatch == InitStarted /\ hist = StartedHist

\* The steps of a submitted batch.
DispatchStep ==
    \/ \E chunk_size \in ChunkSizes : SubmitBatch(chunk_size)
    \/ \E k \in 1..MaxItems : StartChunk(k)
    \/ \E i \in Items : StartItem(i)
    \/ \E i \in Items, o \in Outcomes : ItemReturn(i, o)
    \/ GatherDone
    \/ RetryNext
    \/ \E o \in Outcomes : RetryReturn(o)
    \/ RetryResume
    \/ Finish

NextDispatch ==
    \/ \E total \in 0..MaxItems : InitBatch(total)
    \/ DispatchStep

SpecDispatch == InitDispatch /\ [][NextDispatch]_vars

NextRecovery ==
    \/ \E total \in 0..MaxResumeItems : InitBatch(total)
    \/ DispatchStep
    \/ Crash
    \/ \E chunk_size \in ChunkSizes : Recover(chunk_size)

SpecRecovery == InitDispatch /\ [][NextRecovery]_vars

\* The same with the clock and the expiry tasks.  The event loop runs every
\* task that can run; the classification service, the client and the
\* operator (InitBatch, SubmitBatch, ItemReturn, RetryReturn, Crash, Recover)
\* are not obliged to act.
LoopStep ==
    \/ \E k \in 1..MaxItems : StartChunk(k)
    \/ \E i \in Items : StartItem(i)
    \/ GatherDone
    \/ RetryNext
    \/ RetryResume
    \/ Finish

NextExpiry ==
    \/ NextRecovery
    \/ Tick
    \/ Expire

SpecExpiry == InitDispatch /\ [][NextExpiry]_vars

\* Two batches in flight: batch Bid, of at most MaxPairItems items, with the
\* clock and its expiry task, and batch Other beside it.
NextTwoBatches ==
    \/ \E total \in 0..MaxPairItems : InitBatch(total)
    \/ DispatchStep
    \/ Tick
    \/ Expire
    \/ OtherSubmit
    \/ \E is_valid \in BOOLEAN : OtherItem(is_valid)
    \/ OtherExpire

SpecTwoBatches == InitDispatch /\ [][NextTwoBatches]_vars

SpecExpiryFair ==
    SpecExpiry /\ WF_vars(LoopStep) /\ WF_vars(Tick) /\ WF_vars(Expire)

\* The client has total_files files and posts them in chunks of chunk_size.
InitHttp ==
    /\ InitStarted
    /\ \E n \in 1..MaxItems, size \in 1..MaxItems :
          /\ size <= n
          /\ hist = [StartedHist EXCEPT
                        !.plan = [total_files |-> n, chunk_size |-> size]]

ServerStep ==
    \/ \E k \in 1..MaxReqs, o \in HttpOutcomes : NextFile(k, o)
    \/ \E k \in 1..MaxReqs : EndOfChunk(k)
    \/ \E k \in 1..MaxReqs : Respond(k)

NextHttp ==
    \/ \E k \in 0..(MaxItems - 1), o \in HttpOutcomes : PostChunk(k, o)
    \/ \E k \in 0..(MaxItems - 1), o \in HttpOutcomes : RetryChunk(k, o)
    \/ ServerStep

SpecHttp == InitHttp /\ [][NextHttp]_vars

\* The event loop resumes every request whose send has finished.
SpecHttpFair == SpecHttp /\ WF_vars(ServerStep)

\* ========================================================================
\* Claims about the Live Channel Manager (checked under SpecWS)
\* ========================================================================
\* The welcome message of the newest socket of client c.
WelcomeOf(c) == sent[hist.newest[c]][1]

Reconnected(c) == hist.newest[c] # NoConn /\ hist.expect[c].present
                  /\ hist.expect[c].batches # <<>>

\* C8: a subscriber watching X that was pruned for silence and reconnects
\* under the same id within the recovery window is welcomed with
\* recovered_batches = [X], and every later event of X is sent on the new
\* socket for as long as that socket is open.
C8_PrunedSubscriberResumes ==
    \A c \in ClientIds :
        (Reconnected(c) /\ hist.expect[c].by = "prune") =>
            /\ WelcomeOf(c).recovered_batches = hist.expect[c].batches
            /\ ~hist.missed[c]

\* C37: the newest connection of a subscriber id stays registered, with its
\* batch list, until that same connection disconnects or is pruned; the
\* handler of an older socket of the same id ending does not remove it.
C37_OlderDisconnectKeepsNewer ==
    \A c \in ClientIds :
        (hist.newest[c] # NoConn /\ handler[hist.newest[c]].st = "open") =>
            /\ client_connections[c] = hist.newest[c]
            /\ client_batch_map[c].present

\* C9: whatever removed the subscriber (disconnect_client or
\* pruning), a reconnect within the recovery window is welcomed with the
\* batch ids it was watching.
C9_AnyDisconnectRecovers ==
    \A c \in ClientIds :
        Reconnected(c) =>
            WelcomeOf(c).recovered_batches = hist.expect[c].batches

\* C10: right after prune_stale_connections no subscriber is left connected
\* whose last liveness signal (its connect or its last heartbeat) is older
\* than the timeout.
C10_PruneRemovesEverySilentSubscriber ==
    hist.after_prune =>
        \A c \in ClientIds :
            client_connections[c] # NoConn =>
                now - hist.signal[c] <= PruneTimeout

\* recover_connection(c, w) called in the current state of the manager.
RecoverOutcome(c, w) ==
    LET m == Manager
        info == m.connection_recovery[c]
        r == recover_connection(m, c, w)
    IN  IF info.present
        THEN /\ RecoveredBatches(m, c) = info.batches
             /\ r.client_connections[c] = w
             /\ r.client_batch_map[c] =
                    [present |-> TRUE, batches |-> info.batches]
             /\ r.connection_recovery[c] = NoRecovery
             /\ r.client_last_seen = m.client_last_seen
             /\ RecoveredBatches(r, c) = <<>>
        ELSE /\ RecoveredBatches(m, c) = <<>>
             /\ r = m

\* The websocket endpoint accepts socket w for client c in this step.
ConnectStep(c, w) ==
    /\ handler[w].st # "open"
    /\ handler'[w] = [st |-> "open", client |-> c]

\* C29: in every state of the manager recover_connection(c, w) returns the
\* batch list of c's Recovery Record, installs w with that list and removes
\* the record, so that a second call returns []; without a record it
\* returns [] and changes nothing.  The endpoint's call shows the same: the
\* welcome message carries the record's list, the record is gone afterwards
\* and the client's batch list is the record's.
C29_RecoverConnection ==
    [][/\ \A c \in ClientIds, w \in Sockets : RecoverOutcome(c, w)
       /\ \A c \in ClientIds, w \in Sockets :
              ConnectStep(c, w) =>
                  /\ sent'[w][1].recovered_batches =
                         IF connection_recovery[c].present
                         THEN connection_recovery[c].batches ELSE <<>>
                  /\ connection_recovery'[c] = NoRecovery
                  /\ client_connections'[c] = w
                  /\ connection_recovery[c].present =>
                         client_batch_map'[c] =
                             [present |-> TRUE,
                              batches |-> connection_recovery[c].batches]]_vars

\* The client was pruned while watching batch b1 and has connected again:
\* the welcome message returned b1, the batch list holds it and the record
\* is gone.
C29_Witness ==
    \E c \in ClientIds :
        /\ hist.expect[c].present
        /\ hist.expect[c].by = "prune"
        /\ hist.newest[c] # NoConn
        /\ WelcomeOf(c).recovered_batches = <<Bid>>
        /\ client_batch_map[c] = [present |-> TRUE, batches |-> <<Bid>>]
        /\ client_connections[c] = hist.newest[c]
        /\ connection_recovery[c] = NoRecovery

\* The last heartbeat of client c is older than the prune timeout.
HeartbeatTooOld(c) ==
    client_last_seen[c].present /\ now - client_last_seen[c].at > PruneTimeout

\* The last heartbeat of client c is within the prune timeout.
HeartbeatInTime(c) ==
    client_last_seen[c].present /\ now - client_last_seen[c].at <= PruneTimeout

RecordTooOld(c) ==
    /\ connection_recovery[c].present
    /\ now - connection_recovery[c].disconnected_at > RecoveryMaxAge

\* The Recovery Record of client c is not older than the cleanup age.
RecordInTime(c) ==
    /\ connection_recovery[c].present
    /\ now - connection_recovery[c].disconnected_at <= RecoveryMaxAge

\* cleanup_recovery_info called in the current state of the manager.
CleanupOutcome(c) ==
    LET r == cleanup_recovery_info(Manager, now, RecoveryMaxAge)
    IN  /\ r.client_connections = client_connections
        /\ r.client_batch_map = client_batch_map
        /\ r.client_last_seen = client_last_seen
        /\ RecordTooOld(c) =>
               /\ r.connection_recovery[c] = NoRecovery
               /\ RecoveredBatches(r, c) = <<>>
        /\ ~RecordTooOld(c) =>
               /\ r.connection_recovery[c] = connection_recovery[c]
               /\ RecoveredBatches(r, c) = RecoveredBatches(Manager, c)

\* A step of the cleanup loop that removes a record.
CleanupStep ==
    /\ connection_recovery' # connection_recovery
    /\ handler' = handler
    /\ ~hist'.after_prune

\* C31: in every state cleanup_recovery_info removes the Recovery Records
\* older than the cleanup age and no other, and touches nothing else of the
\* manager; a client whose record was kept recovers its batches, one whose
\* record was removed recovers none.  The steps of the cleanup loop show the
\* same.
C31_CleanupRemovesOnlyOldRecords ==
    [][/\ \A c \in ClientIds : CleanupOutcome(c)
       /\ CleanupStep =>
              \A c \in ClientIds :
                  /\ RecordTooOld(c) => connection_recovery'[c] = NoRecovery
                  /\ RecordInTime(c) =>
                         connection_recovery'[c] = connection_recovery[c]]_vars

\* A client pruned while watching batch b1 has stayed away longer than the
\* cleanup age and the cleanup loop has removed its record: a connect in
\* this state recovers no batch.
C31_Witness ==
    \E c \in ClientIds :
        /\ hist.lost[c].present
        /\ hist.lost[c].by = "prune"
        /\ hist.lost[c].batches = <<Bid>>
        /\ now - hist.lost[c].at > RecoveryMaxAge
        /\ client_connections[c] = NoConn
        /\ connection_recovery[c] = NoRecovery
        /\ RecoveredBatches(Manager, c) = <<>>

\* ========================================================================
\* Claims about the Ledger, the checkpoint and the event stream
\* (checked under SpecDispatch)
\* ========================================================================
\* The events the subscriber's socket received after the welcome.
Events == SubSeq(sent[SocketOrder[1]], 2, Len(sent[SocketOrder[1]]))

\* C1: in every reachable state, and in every snapshot that update_batch or
\* update_retry_progress returned (the progress events carry them), the
\* counters satisfy 0 <= processed <= total and valid + invalid = processed.
C1_CounterInvariant ==
    /\ \A b \in BatchIds :
          batch_data[b].kind = "rec" =>
              /\ 0 <= batch_data[b].processed
              /\ batch_data[b].processed <= batch_data[b].total
              /\ batch_data[b].valid + batch_data[b].invalid
                     = batch_data[b].processed
    /\ \A j \in 1..Len(Events) :
          Events[j].event = "progress" =>
              /\ Events[j].processed <= Events[j].total
              /\ Events[j].valid + Events[j].invalid = Events[j].processed

\* C4: an item that timed out in the first pass is submitted to the
\* classification call once more and never again (two calls in all), and
\* once the retry pass is over update_batch has counted it exactly once, so
\* that processed equals total.
C4_RetriedExactlyOnce ==
    /\ \A i \in Items : calls[i] <= 2 /\ hist.counted[i] <= 1
    /\ \A k \in 1..Len(pwc.failed_requests) :
          LET i == pwc.failed_requests[k]
          IN  /\ (\/ k < pwc.pos
                   \/ (k = pwc.pos /\ pwc.pc \in {"retry_inner", "retry_sent"})
                   \/ pwc.pc \in {"completing", "done"})
                     => (calls[i] = 2 /\ hist.counted[i] = 1)
              /\ k > pwc.pos => (calls[i] = 1 /\ hist.counted[i] = 0)
    /\ pwc.pc = "completing" =>
          batch_data[Bid].processed = batch_data[Bid].total

\* An item timed out twice (its only CSV row is the retry loop's) and the
\* batch finished.
C4_Witness ==
    /\ pwc.pc = "done"
    /\ pwc.failed_requests # <<>>
    /\ LET i == pwc.failed_requests[1]
       IN  calls[i] = 2 /\ hist.counted[i] = 1 /\ csv_rows[Bid][i] = 1
    /\ hist.final_stats.processed = hist.final_stats.total

\* C5: a batch of n items in one chunk with k >= 1 first-pass timeouts shows
\* the subscriber n-k progress events, then retry_start with retry_total = k,
\* then one progress event per retried item, then complete with
\* processed = n, and nothing else.
C5_EventSequence ==
    (pwc.pc = "done" /\ chunk_count = 1 /\ pwc.failed_requests # <<>>) =>
        LET n == Len(pwc.image_urls)
            k == Len(pwc.failed_requests)
        IN  /\ Len(Events) = n + 2
            /\ \A j \in 1..(n - k) : Events[j].event = "progress"
            /\ Events[n - k + 1] = RetryStartEvent(k)
            /\ \A j \in 1..k :
                  /\ Events[n - k + 1 + j].event = "progress"
                  /\ Events[n - k + 1 + j].current = pwc.failed_requests[j]
            /\ Events[n + 2].event = "complete"
            /\ Events[n + 2].processed = n

\* C6: while a batch has a Ledger entry and a checkpoint, no step makes the
\* checkpoint's remaining list longer, and every step shortens it by as many
\* items as the Ledger's processed counter went up.
C6_CheckpointShrinksWithLedger ==
    [][ (/\ batch_data[Bid].kind = "rec" /\ batch_data'[Bid].kind = "rec"
         /\ pending[Bid].kind = "file" /\ pending'[Bid].kind = "file")
        => /\ Len(pending'[Bid].image_urls) <= Len(pending[Bid].image_urls)
           /\ Len(pending[Bid].image_urls) - Len(pending'[Bid].image_urls)
                  = batch_data'[Bid].processed - batch_data[Bid].processed
      ]_vars

\* ========================================================================
\* Claims about crash recovery (checked under SpecRecovery)
\* ========================================================================
\* C7: after a re-registration from the checkpoint the Ledger never counts
\* fewer items than the checkpoint had, the recovered run ends in the
\* completion branch, and it ends with processed equal to the total the
\* batch was registered with: the checkpoint's processed plus its remaining
\* items.
C7_RecoveryResumesCounting ==
    (hist.crashes >= 1 /\ pwc.pc \notin {"idle", "crashed"}) =>
        /\ pwc.pc # "failed"
        /\ batch_data[Bid].kind = "rec" =>
               /\ batch_data[Bid].processed >= hist.resumed.processed
               /\ batch_data[Bid].total = hist.registered
        /\ pwc.pc \in {"completing", "done"} =>
               /\ hist.final_stats.processed = hist.registered
               /\ hist.final_stats.processed =
                      hist.resumed.processed + Len(hist.resumed.image_urls)

\* A crash after at least one item was checkpointed and with items left,
\* followed by a recovered run that finished.
C7_Witness ==
    /\ hist.crashes >= 1
    /\ pwc.pc = "done"
    /\ hist.resumed.kind = "file"
    /\ hist.resumed.processed >= 1
    /\ Len(hist.resumed.image_urls) >= 1
    /\ hist.final_stats.processed = hist.registered

\* ------------------------------------------------------------------------
\* C38: no item is lost across a crash.  Until the batch is terminal every
\* item of the batch has a result row or is still listed in the checkpoint,
\* and after a restart every item without a result row is among the URLs
\* the recovery read from the checkpoint and handed to process_with_chunks.
C38_NoItemLostAcrossCrash ==
    \A i \in 1..hist.registered :
        /\ pwc.pc \notin {"idle", "done"} =>
               \/ csv_rows[Bid][i] >= 1
               \/ pending[Bid].kind = "file" /\ InSeq(pending[Bid].image_urls, i)
        /\ (hist.crashes >= 1 /\ pwc.pc \notin {"idle", "crashed", "done"}) =>
               \/ csv_rows[Bid][i] >= 1
               \/ InSeq(hist.resumed.image_urls, i)

\* The process crashed after item 1 got its row and left the checkpoint while
\* item 2 had no row; the recovered run was handed item 2 alone and its
\* classification call is in flight.
C38_Witness ==
    /\ hist.crashes >= 1
    /\ hist.registered = 2
    /\ csv_rows[Bid][1] = 1 /\ csv_rows[Bid][2] = 0
    /\ hist.resumed.kind = "file"
    /\ hist.resumed.image_urls = <<2>>
    /\ pwc.pc = "gather"
    /\ item_st[2] = "inflight"

\* ------------------------------------------------------------------------
\* C11: a batch registered with total 0 reports progress 100 from
\* get_batch_status from its registration on, its process_with_chunks run
\* never fails, and once that run has passed its completion check a
\* complete event (processed 0 of 0) is on the socket and no classification
\* call was made.
RegisteredEmpty ==
    /\ hist.registered = 0
    /\ (batch_data[Bid].kind = "rec" \/ pwc.pc # "idle")

C11_EmptyBatchIsTerminal ==
    RegisteredEmpty =>
        /\ get_batch_status(metadata[Bid]).progress = 100
        /\ pwc.pc \in {"idle", "gather", "completing", "done"}
        /\ \A i \in Items : calls[i] = 0
        /\ (pwc.pc \in {"completing", "done"} =>
               \E k \in 1..Len(Events) :
                   /\ Events[k].event = "complete"
                   /\ Events[k].processed = 0
                   /\ Events[k].total = 0)

C11_Witness ==
    /\ RegisteredEmpty
    /\ pwc.pc = "done"
    /\ \E k \in 1..Len(Events) : Events[k].event = "complete"
    /\ get_batch_status(metadata[Bid]).progress = 100

\* ========================================================================
\* Claims about the complete event (checked under SpecHttp, SpecHttpFair)
\* ========================================================================
CompleteEvents == {j \in 1..Len(Events) : Events[j].event = "complete"}

\* C2: the subscriber of a batch never receives a second complete event.
C2_CompleteAtMostOnce == Cardinality(CompleteEvents) <= 1

AllChunksPosted ==
    \A k \in 0..(total_chunks - 1) :
        \E j \in 1..Len(reqs) : reqs[j].chunk_index = k

\* A request ended with status 500 (update_batch or the completion check
\* found no counters).
SomeRequestFailed == \E j \in 1..Len(reqs) : reqs[j].pc = "failed"

\* The client has asked for a retry of some chunk.
SomeChunkRetried == \E j \in 1..Len(reqs) : reqs[j].kind = "retry"

\* C3: once every chunk of the batch has been posted, a complete event is
\* eventually sent; runs in which a request ends with status 500 or the
\* client asks for a retry are left aside.
C3_CompleteEventuallySent ==
    (AllChunksPosted /\ ~SomeRequestFailed /\ ~SomeChunkRetried)
        ~> (CompleteEvents # {} \/ SomeRequestFailed \/ SomeChunkRetried)

\* C12: once a complete event has been sent and every request has returned,
\* the Ledger holds neither an entry nor a lock for the batch and the batch
\* has no checkpoint file.
C12_ReleasedAfterComplete ==
    (/\ CompleteEvents # {}
     /\ \A j \in 1..Len(reqs) : reqs[j].pc \in {"done", "failed"})
        => /\ batch_data[Bid].kind = "none"
           /\ Bid \notin batch_locks
           /\ pending[Bid].kind = "none"

\* C21: a request that has returned its response returned it before the
\* files of its chunk had all been processed.
C21_AcknowledgedBeforeProcessing ==
    \A k \in 1..Len(reqs) :
        reqs[k].pc = "done" =>
            BatchProcessingResponse(reqs[k]).total_processed
                < Len(reqs[k].files)

C26_CompletedOnlyWhenTerminal ==
    metadata[Bid].status = "completed" =>
        /\ AllChunksPosted
        /\ batch_data[Bid].kind = "rec" =>
               /\ batch_data[Bid].processed >= batch_data[Bid].total
               /\ (batch_data[Bid].retry_phase =>
                      batch_data[Bid].retry_processed
                          >= batch_data[Bid].retry_total)

\* C27: no step takes the Ledger entry of a batch from one set of counters
\* to a smaller one: processed, valid and invalid never go down while the
\* entry exists, so a second init_batch for the batch id has no effect.
C27_CountersNeverGoBack ==
    [][(batch_data[Bid].kind = "rec" /\ batch_data'[Bid].kind = "rec") =>
          /\ batch_data'[Bid].processed >= batch_data[Bid].processed
          /\ batch_data'[Bid].valid >= batch_data[Bid].valid
          /\ batch_data'[Bid].invalid >= batch_data[Bid].invalid]_vars

\* ========================================================================
\* Claims about the Ledger's locks and entries
\* ========================================================================
\* The Ledger state of batch b (entry, Lock, holder) differs after the step.
LedgerChanged(b) ==
    \/ batch_data'[b] # batch_data[b]
    \/ (b \in batch_locks') # (b \in batch_locks)
    \/ (b \in lock_held') # (b \in lock_held)

\* C32: with two batches in flight, a step that changes the Ledger state of
\* one batch (update_batch, update_retry_progress, start_retry_phase,
\* mark_done, clear_batch) leaves entry, Lock and holder of the other as
\* they were, and it finds no Lock held by an operation on the other batch.
C32_LedgerOperationsPerBatch ==
    [][/\ ~(LedgerChanged(Bid) /\ LedgerChanged(Other))
       /\ LedgerChanged(Bid) => Other \notin lock_held
       /\ LedgerChanged(Other) => Bid \notin lock_held]_vars

\* Both batches have counted an item; each has its own Lock.
C32_Witness ==
    /\ batch_data[Bid].kind = "rec" /\ batch_data[Bid].processed = 1
    /\ batch_data[Other].kind = "rec" /\ batch_data[Other].processed = 1
    /\ batch_locks = {Bid, Other}

\* C33: in every state, where each task is suspended in a classification
\* call or a send, waits for a semaphore or has returned, no Ledger Lock is
\* held.
C33_LockNeverHeldAcrossWait == lock_held = {}

\* A task is suspended in its classification call after another item of the
\* batch has been counted under the batch's Lock.
C33_Witness ==
    /\ \E i \in Items : item_st[i] = "inflight"
    /\ \E i \in Items : hist.counted[i] = 1
    /\ Bid \in batch_locks
    /\ lock_held = {}

\* The names still listed in a checkpoint record.
Remaining(f) == IF f.kind = "file" THEN f.image_urls ELSE f.files_names

\* C40: whenever a checkpoint record exists, processed plus the number of
\* remaining names equals total and valid plus invalid equals processed,
\* whatever names remove_processed_url and remove_processed_file were called
\* for, absent names and repeated calls included.
C40_CheckpointCountersAgree ==
    \A b \in BatchIds :
        pending[b].kind # "none" =>
            /\ pending[b].processed + Len(Remaining(pending[b])) = pending[b].total
            /\ pending[b].valid + pending[b].invalid = pending[b].processed

\* Two of three URLs were removed, one as valid and one as invalid, a call
\* named a URL the list did not hold (never stored, or removed before), and
\* one URL is left.
C40_Witness ==
    /\ pending[Bid].kind = "file"
    /\ pending[Bid].total = 3
    /\ pending[Bid].processed = 2
    /\ pending[Bid].valid = 1
    /\ pending[Bid].image_urls = <<2>>
    /\ hist.absent

\* C39: once clear_batch has run for the batch (after the complete event or
\* by auto-expiry), the Ledger has no entry without counters for it: no
\* later operation puts one back.
C39_NothingAfterClear ==
    (hist.expired.present \/ pwc.pc = "done") =>
        batch_data[Bid].kind # "empty"

\* ========================================================================
\* Claims about the retry set and the result file (checked under SpecDispatch)
\* ========================================================================
\* C15: an item whose first-pass task has returned is in failed_requests
\* exactly when check_logo returned the timeout flag; while the first pass
\* runs such an item has no CSV row, no update_batch call and is still in
\* the checkpoint; an item with any other result has one CSV row and one
\* update_batch call and was classified once.
C15_OnlyTimeoutsAreRetried ==
    \A i \in Items :
        item_st[i] = "done" =>
            /\ InSeq(pwc.failed_requests, i) <=> hist.outcome[i] = "Timeout"
            /\ (hist.outcome[i] = "Timeout" /\ pwc.pc = "gather") =>
                   /\ csv_rows[Bid][i] = 0
                   /\ hist.counted[i] = 0
                   /\ pending[Bid].kind = "file"
                   /\ InSeq(pending[Bid].image_urls, i)
            /\ hist.outcome[i] # "Timeout" =>
                   /\ csv_rows[Bid][i] = 1
                   /\ hist.counted[i] = 1
                   /\ calls[i] = 1

\* C16: when a complete event has been sent, results.csv holds exactly one
\* row for every item of the batch.
C16_OneRowPerItem ==
    CompleteEvents # {} =>
        \A i \in 1..hist.registered : csv_rows[Bid][i] = 1

OrchestrationFailure ==
    \E i \in Items : item_st[i] # "raised" /\ item_st'[i] = "raised"

\* C24: a step in which process_batch_background fails for batch Bid sends
\* one error event for Bid to the socket of Bid's client and changes nothing
\* of batch Other: Ledger entry, lock, expiry task, checkpoint, CSV and
\* metadata stay as they were.
C24_FailureStaysInItsBatch ==
    [][OrchestrationFailure =>
          /\ sent' = [sent EXCEPT ![client_connections[Cid]] =
                                      Append(@, ErrorEvent)]
          /\ batch_data'[Other] = batch_data[Other]
          /\ (Other \in batch_locks') = (Other \in batch_locks)
          /\ expiry'[Other] = expiry[Other]
          /\ pending'[Other] = pending[Other]
          /\ csv_rows'[Other] = csv_rows[Other]
          /\ metadata'[Other] = metadata[Other]]_vars

\* process_batch_background failed for batch Bid while batch Other was in
\* flight with its URL still to be classified.
C24_Witness ==
    /\ \E i \in Items : item_st[i] = "raised"
    /\ batch_data[Other].kind = "rec"
    /\ batch_data[Other].processed = 0
    /\ pending[Other].kind = "file"
    /\ Events[Len(Events)] = ErrorEvent

\* C25: while process_with_chunks waits in the send of the complete event,
\* metadata.json holds status "completed" and the counts of the event, and
\* the Ledger entry and the checkpoint are still there; the task has
\* released them only when the event is on the socket.
C25_SummaryThenEventThenRelease ==
    /\ pwc.pc = "completing" =>
           /\ Events # <<>>
           /\ Events[Len(Events)].event = "complete"
           /\ metadata[Bid].status = "completed"
           /\ metadata[Bid].valid = Events[Len(Events)].valid
           /\ metadata[Bid].invalid = Events[Len(Events)].invalid
           /\ metadata[Bid].total = Events[Len(Events)].total
           /\ batch_data[Bid].kind = "rec"
           /\ pending[Bid].kind = "file"
    /\ pwc.pc = "done" =>
           /\ CompleteEvents # {}
           /\ batch_data[Bid].kind = "none"
           /\ pwc.image_urls # <<>> => pending[Bid].kind = "none"

\* The complete event of a batch of two items is being sent.
C25_Witness ==
    /\ pwc.pc = "completing"
    /\ Events[Len(Events)].event = "complete"
    /\ Events[Len(Events)].total = 2
    /\ Events[Len(Events)].valid = 1
    /\ metadata[Bid].status = "completed"

\* The progress events for item i.
ProgressOf(i) ==
    {k \in 1..Len(Events) :
        Events[k].event = "progress" /\ Events[k].current = i}

\* C28: for every item of the batch, the result row and the Ledger count
\* come before the removal from the checkpoint, and all three before the
\* progress event: an item that is no longer in the checkpoint has its row
\* and is counted; an item with a progress event has its row and is
\* counted, and is out of the checkpoint when it was classified in the
\* first pass.
C28_RowCountCheckpointEvent ==
    \A i \in 1..hist.registered :
        /\ (pending[Bid].kind = "file" /\ ~InSeq(pending[Bid].image_urls, i)) =>
               csv_rows[Bid][i] >= 1 /\ hist.counted[i] >= 1
        /\ ProgressOf(i) # {} =>
               /\ csv_rows[Bid][i] >= 1 /\ hist.counted[i] >= 1
               /\ (hist.outcome[i] \in {"Valid", "Invalid"}
                     /\ pending[Bid].kind = "file") =>
                      ~InSeq(pending[Bid].image_urls, i)

\* Item 1 was classified as valid and has its progress event while item 2,
\* whose result could not be written, is counted but still in the checkpoint.
C28_Witness ==
    /\ hist.registered = 2
    /\ pending[Bid].kind = "file"
    /\ pending[Bid].image_urls = <<2>>
    /\ hist.outcome[1] = "Valid" /\ ProgressOf(1) # {}
    /\ hist.outcome[2] = "Unavailable" /\ hist.counted[2] = 1

\* The items whose classification call (check_logo) is awaited.
InFlight == {i \in Items : item_st[i] = "inflight"}

\* C17: the items in flight at one moment all belong to one chunk.
C17_ChunksNeverOverlap ==
    \A i, j \in InFlight : ChunkOf(PosOf(i)) = ChunkOf(PosOf(j))

\* C18: the number of classification calls in flight never exceeds the
\* concurrency cap computed from the CPU count (max_concurrent, at most 4).
C18_GlobalCap == Cardinality(InFlight) <= max_concurrent

\* The positions of the events that carry a Ledger snapshot.
Snapshots == {k \in 1..Len(Events) : Events[k].event \in {"progress", "complete"}}

\* C20: on the subscriber's socket an event with a smaller processed count
\* never comes after an event with a larger one (checked under SpecHttp; it
\* holds under SpecDispatch).
C20_EventsInSnapshotOrder ==
    \A j, k \in Snapshots :
        j < k => Events[j].processed <= Events[k].processed

\* ========================================================================
\* Claims about ConnectionManager.broadcast (checked under SpecBroadcast)
\* ========================================================================
\* How often socket w received the message of the last broadcast call.
Received(w) ==
    Cardinality({k \in 1..Len(sent[w]) :
                    /\ sent[w][k].event = "message"
                    /\ sent[w][k].message = hist.broadcasts})

\* C19: when a broadcast call has returned, every socket that was in the
\* batch's list during the whole call and whose send did not raise has
\* received the message exactly once.
C19_BroadcastReachesEveryLiveWatcher ==
    (hist.broadcasts >= 1 /\ broadcasting.pc = "idle") =>
        \A w \in hist.watching \ hist.failed : Received(w) = 1

\* ========================================================================
\* Claims about auto-expiry (checked under SpecExpiry, SpecExpiryFair)
\* ========================================================================
\* The batch has a full Ledger entry, entered early enough for a sleep of
\* ExpiryTimeout to end within the time the model covers.
Entered == batch_data[Bid].kind = "rec" /\ now + ExpiryTimeout <= MaxTime

C14_ExpiryOnlyWhenIdle ==
    hist.expired.present => hist.expired.idle >= ExpiryTimeout

\* ========================================================================
\* Claims about the batch store of ws_manager (checked under SpecWsBatches)
\* ========================================================================
\* The sleeping expiry tasks of batch b.
LiveTimers(b) == {t \in expire_tasks : t.batch_id = b}

\* C34: a batch id is in `batches` exactly when one live expiry timer exists
\* for it and that timer is the one recorded in `timeouts`; an id that is
\* not in `batches` is not in `timeouts` and has no live timer.
C34_OneTimerPerBatch ==
    \A b \in BatchIds :
        /\ batches[b].present <=>
               /\ Cardinality(LiveTimers(b)) = 1
               /\ \E t \in LiveTimers(b) : t.id = timeouts[b]
        /\ ~batches[b].present =>
               /\ timeouts[b] = 0
               /\ LiveTimers(b) = {}

\* ========================================================================
\* Claims about the login rate limiter (checked under SpecLogin)
\* ========================================================================
\* The logins of ip admitted at a time from s up to, not including,
\* s + window_seconds.
AdmittedWithin(ip, s) ==
    {k \in 1..Len(hist.admitted[ip]) :
        s <= hist.admitted[ip][k] /\ hist.admitted[ip][k] < s + window_seconds}

\* C36: a sliding window: for every ip, no interval of window_seconds holds
\* more than max_attempts admitted login attempts.
C36_SlidingWindow ==
    \A ip \in Ips, s \in 0..MaxClock :
        Cardinality(AdmittedWithin(ip, s)) <= max_attempts

\* ========================================================================
\* Claims about the cleanup of exports/ (checked under SpecExports)
\* ========================================================================
\* Directory d is older than max_age_hours and holds no checkpoint file.
OldWithoutCheckpoint(d) ==
    /\ exports[d].present
    /\ now - exports[d].ctime > max_age_hours
    /\ ~exports[d].pending_files /\ ~exports[d].pending_urls

\* The directories a step deletes.
Deleted == {d \in Dirs : exports[d].present /\ ~exports'[d].present}

====
